---- MODULE Spec2Model ----
(***************************************************************************)
(* Model of the memcached daemon's bucket table, connection registry,      *)
(* connection state machine and buffer loan protocol                       *)
(* (src/daemon/memcached.cc, src/daemon/connections.cc).                   *)
(*                                                                         *)
(* The daemon of the model runs one worker thread (settings.num_threads   *)
(* = 1): the worker serves one connection at a time and holds its thread   *)
(* mutex while it does, so the handlers of two connections do not          *)
(* interleave.  A create-bucket or delete-bucket request runs in a thread  *)
(* of its own (create_bucket_main / delete_bucket_main) while the          *)
(* requesting connection is parked with ewouldblock set; those threads and *)
(* the engines' notifications interleave with the worker at the            *)
(* granularity of one state function / one bucket-mutex critical section.  *)
(***************************************************************************)
EXTENDS Integers, Sequences, FiniteSets, TLC

\* ------------------------------------------------------------------ bounds
MaxBuckets == 3          \* settings.max_buckets: slots 0 .. MaxBuckets-1
MaxConns   == 2          \* connection objects that can be live at once
MaxCreates == 1          \* create-bucket requests issued in one run
MaxReqs    == 3          \* largest requests-per-event budget tried
DefaultReqs == 1         \* settings.default_reqs_per_event of the run
MaxBufs    == 4          \* buffers malloc can hand out before it fails
MaxTenantCreates == 3    \* create-bucket requests of a "tenant" run
MaxRaceCreates == 2      \* create-bucket requests of a "race" run

Slots == 0 .. (MaxBuckets - 1)
Conns == 1 .. MaxConns
Names == {"default", "b1"}          \* bucket names clients use
NullEngine == -1                    \* nullptr in Connection::bucketEngine

\* What the clients of a run do: "admin" clients read and write items and
\* create, select and delete buckets; a "stream" client opens a DCP stream
\* (and is the only client of its run).
Workloads == {"admin", "stream"}

\* The clients of a "tenant" run (TableSpec below: one client) and of a
\* "race" run (RaceSpec: several clients at once) only create and delete
\* buckets; the tenant uses as many names as the table has slots.
BucketNames == <<"default", "b1", "b2", "b3", "b4", "b5">>
TenantNames == {BucketNames[i] : i \in 1 .. MaxBuckets}

VARIABLES
    all_buckets,    \* the bucket table: slot -> Bucket
    buckets_lock,   \* holder of the process-wide table lock (0: free)
    ncreates,       \* create-bucket requests issued so far
    workload,       \* what the clients of this run do
    conns,          \* connection objects: id -> fields (state "free": no object)
    registry,       \* connections.conns, the registry of live connections
    assert_failed,  \* a cb_assert of assert_no_associations failed
    use_after_free, \* a completion was delivered to a freed connection
    thread_buf,     \* the worker thread's spare read and write buffer
    net_buf,        \* the read and write buffer of each connection
    heap,           \* the buffers malloc handed out and free did not get back
    double_free,    \* free() was called on a buffer that is not allocated
    connections_mutex, \* holder of connections.mutex (0: free)
    main,           \* the main thread: where it is in main()
    coll            \* a Collections object and what the last call on it threw

\* The bucket names the clients of the run use, and the number of
\* create-bucket requests they issue.
ClientNames == IF workload = "tenant" THEN TenantNames ELSE Names
CreateCap ==
    CASE workload = "tenant" -> MaxTenantCreates
      [] workload = "race" -> MaxRaceCreates
      [] OTHER -> MaxCreates

\* src/daemon/mcbp_validators.cc:723 the longest bucket name.
MAX_BUCKET_NAME_LENGTH == 100

\* src/tests/testapp/testapp_bucket.cc:33 a name of n characters.
RECURSIVE fill(_)
fill(n) == IF n = 0 THEN "" ELSE "a" \o fill(n - 1)

\* The names the clients put into create-bucket and delete-bucket
\* requests: the bucket names of the run, the empty name and, for the
\* tenant, a name of the greatest length and one that is a character
\* longer.
RequestNames ==
    ClientNames \cup {""} \cup
    (IF workload = "tenant"
     THEN {fill(MAX_BUCKET_NAME_LENGTH), fill(MAX_BUCKET_NAME_LENGTH + 1)}
     ELSE {})

\* The buffers are modelled on their own (BufSpec below).
bufvars == <<thread_buf, net_buf, heap, double_free>>

\* The main thread's shutdown is modelled on its own (ShutdownSpec below).
shutvars == <<connections_mutex, main>>

vars == <<all_buckets, buckets_lock, ncreates, workload, coll, conns, registry,
          assert_failed, use_after_free, bufvars, shutvars>>

\* ------------------------------------------------------------ bucket table
\* src/daemon/memcached.cc:2571 initialize_buckets: every slot None except
\* slot 0, the "no bucket" engine, which is Ready from the start.
EmptyBucket ==
    [state |-> "None", name |-> "", clients |-> 0, engine |-> "null",
     ndestroy |-> 0, handlers |-> FALSE, cond |-> FALSE]

initialize_buckets ==
    [i \in Slots |->
        IF i = 0 THEN [EmptyBucket EXCEPT !.state = "Ready", !.engine = "live"]
                 ELSE EmptyBucket]

\* A connection object as the Connection constructor leaves it.
FreeConn ==
    [state |-> "free", bucketIndex |-> -1, bucketEngine |-> NullEngine,
     refcount |-> 0, ewouldblock |-> FALSE, aio |-> "none",
     aiostat |-> "SUCCESS", pio |-> FALSE, ev |-> "none", which |-> "none",
     numEvents |-> 0, maxReqsPerEvent |-> 1, dcp |-> FALSE,
     socketClosed |-> FALSE, rbytes |-> 0, rlbytes |-> 0,
     write_and_go |-> "conn_new_cmd", pc |-> "idle", ii |-> 0, name |-> "",
     tpc |-> "none", tii |-> 0, tidx |-> 0, tret |-> "SUCCESS",
     first_free |-> -1, found |-> FALSE,
     unlimited |-> FALSE, ncmds |-> 0, started |-> "none", item |-> FALSE,
     notified |-> -1, thread |-> FALSE, sent |-> FALSE, txerr |-> FALSE]

\* src/daemon/collections.h:27-32
CollectionsDefaultEnabled == FALSE
CollectionsDefaultSeparator == ":"
CollectionsMaxSetSize == 1000
CollectionNameMaxLength == 30
CollectionModeStrict == "strict"
CollectionModeOff == "off"

\* src/daemon/collections.h:37 the object the constructor builds.
Collections ==
    [enabled |-> CollectionsDefaultEnabled,
     separator |-> CollectionsDefaultSeparator,
     collections |-> {}]

\* A Collections object nobody has configured yet.
Unconfigured == coll = [obj |-> Collections, thrown |-> "none"]

\* A net_buf without a buffer; curr is the offset of the cursor from buf.
NullBuf == [buf |-> 0, curr |-> 0, bytes |-> 0]

NoBuffers ==
    /\ thread_buf = [read |-> NullBuf, write |-> NullBuf]
    /\ net_buf = [c \in Conns |-> [read |-> NullBuf, write |-> NullBuf]]
    /\ heap = {}
    /\ double_free = FALSE

\* src/daemon/memcached.cc:3085 the main thread is in its event loop,
\* accepting clients; nobody holds connections.mutex.
Serving ==
    /\ connections_mutex = 0
    /\ main = [pc |-> "serving", cursor |-> 0, done |-> FALSE,
               shutdown |-> FALSE]

Init ==
    /\ NoBuffers
    /\ Unconfigured
    /\ Serving
    /\ all_buckets = initialize_buckets
    /\ buckets_lock = 0
    /\ ncreates = 0
    /\ workload \in Workloads
    /\ conns = [c \in Conns |-> FreeConn]
    /\ registry = {}
    /\ assert_failed = FALSE
    /\ use_after_free = FALSE

\* The process runs until a cb_assert aborts it or until freed memory is used;
\* what happens after either is not modelled.
Running == ~assert_failed /\ ~use_after_free

SetConn(c, r) == conns' = [conns EXCEPT ![c] = r]

\* The worker thread is in its event loop, its mutex free: no handler runs.
WorkerIdle == \A d \in Conns : conns[d].pc = "idle"

\* ------------------------------------------------- associate / disassociate
\* src/daemon/memcached.cc:161 the bucket's condition is signalled when the
\* last client of a bucket that is being destroyed has gone.
cond_signal_always(b) == TRUE

cond_signal(b) == b.clients = 0 /\ b.state = "Destroying"

\* src/daemon/memcached.cc:152 disassociate_bucket, the bucket's side: one
\* client less, and the condition signalled (cond: signalled since the
\* deleter began to wait; the signal ends its timed wait early).
disassociate_bucket_b(ab, idx) ==
    LET b == [ab[idx] EXCEPT !.clients = @ - 1]
    IN [ab EXCEPT ![idx] = [b EXCEPT !.cond = @ \/ cond_signal(b)]]

\* disassociate_bucket, the connection's side: index 0, no engine.
disassociate_bucket_c(r) ==
    [r EXCEPT !.bucketIndex = 0, !.bucketEngine = NullEngine]

\* src/daemon/memcached.cc:178 the test associate_bucket makes under the
\* bucket's mutex before it binds.
associate_match_any_state(b, name) == b.name = name

associate_match(b, name) == b.state = "Ready" /\ b.name = name

\* Binding a connection to slot idx: count it and copy index and engine.
bind_b_uncounted(ab, idx) == ab

bind_b(ab, idx) == [ab EXCEPT ![idx].clients = @ + 1]

bind_c(r, idx) == [r EXCEPT !.bucketIndex = idx, !.bucketEngine = idx]

\* Where associate_bucket's caller goes on: conn_new returns and the
\* connection waits for its first read event; the select-bucket executor
\* queues its response.
AssocDone(r) ==
    IF r.state = "conn_new_cmd"
    THEN [r EXCEPT !.pc = "idle", !.ev = "read", !.name = "", !.ii = 0]
    ELSE [r EXCEPT !.pc = "run", !.state = "conn_mwrite",
                   !.write_and_go = "conn_new_cmd", !.name = "", !.ii = 0]

\* src/daemon/memcached.cc:171 associate_bucket: leave the current bucket.
associate_bucket_leave(c) ==
    /\ Running
    /\ conns[c].pc = "assoc_dis"
    /\ all_buckets' = disassociate_bucket_b(all_buckets, conns[c].bucketIndex)
    /\ SetConn(c, [disassociate_bucket_c(conns[c]) EXCEPT
                      !.pc = "assoc_scan", !.ii = 1])
    /\ UNCHANGED <<bufvars, ncreates, workload, coll, shutvars, buckets_lock, registry, assert_failed,
                   use_after_free>>

\* src/daemon/memcached.cc:175-185 one iteration of the scan, under the
\* mutex of slot ii.
associate_bucket_scan(c) ==
    /\ Running
    /\ conns[c].pc = "assoc_scan"
    /\ conns[c].ii < MaxBuckets
    /\ LET ii == conns[c].ii IN
       IF associate_match(all_buckets[ii], conns[c].name)
       THEN /\ all_buckets' = bind_b(all_buckets, ii)
            /\ SetConn(c, AssocDone(bind_c(conns[c], ii)))
       ELSE /\ SetConn(c, [conns[c] EXCEPT !.ii = ii + 1])
            /\ UNCHANGED all_buckets
    /\ UNCHANGED <<bufvars, ncreates, workload, coll, shutvars, buckets_lock, registry, assert_failed,
                   use_after_free>>

\* src/daemon/memcached.cc:187-195 not found: connect to the "no bucket".
associate_bucket_nobucket(c) ==
    /\ Running
    /\ conns[c].pc = "assoc_scan"
    /\ conns[c].ii >= MaxBuckets
    /\ all_buckets' = bind_b(all_buckets, 0)
    /\ SetConn(c, AssocDone(bind_c(conns[c], 0)))
    /\ UNCHANGED <<bufvars, ncreates, workload, coll, shutvars, buckets_lock, registry, assert_failed,
                   use_after_free>>

\* src/daemon/memcached.cc:200 associate_initial_bucket: count the
\* connection on slot 0, then associate_bucket(c, "default").
associate_initial_bucket(c) ==
    /\ Running
    /\ conns[c].pc = "assoc_initial"
    /\ all_buckets' = bind_b(all_buckets, 0)
    /\ SetConn(c, [bind_c(conns[c], 0) EXCEPT
                      !.pc = "assoc_dis", !.name = "default"])
    /\ UNCHANGED <<bufvars, ncreates, workload, coll, shutvars, buckets_lock, registry, assert_failed,
                   use_after_free>>

\* ---------------------------------------------------------- the registry
\* The lowest free connection object (objects are interchangeable).
NextFree(c) ==
    /\ conns[c].state = "free"
    /\ conns[c].aio = "none"
    /\ \A d \in Conns : (conns[d].state = "free" /\ conns[d].aio = "none")
                            => c <= d

\* src/daemon/connections.cc:418 allocate_connection: a new object, put in
\* the registry at once (its refcount is still the constructor's 0).
allocate_connection(c) ==
    /\ Running
    /\ WorkerIdle
    /\ NextFree(c)
    /\ ~main.shutdown
    /\ workload = "stream" => registry = {}
    /\ SetConn(c, [FreeConn EXCEPT !.state = "init", !.pc = "conn_new"])
    /\ registry' = registry \cup {c}
    /\ UNCHANGED <<bufvars, ncreates, workload, coll, shutvars, all_buckets, buckets_lock, assert_failed,
                   use_after_free>>

\* A freed object: nothing of it is left but the engine operation or the
\* bucket thread that still holds its address.
Freed(r) ==
    IF r.aio = "pending"
    THEN [FreeConn EXCEPT !.aio = "pending", !.tpc = r.tpc, !.tii = r.tii,
                          !.tidx = r.tidx, !.tret = r.tret, !.name = r.name,
                          !.first_free = r.first_free, !.found = r.found]
    ELSE FreeConn

\* src/daemon/connections.cc:467 release_connection: off the registry, freed.
release_connection(c) ==
    /\ registry' = registry \ {c}
    /\ SetConn(c, Freed(conns[c]))

\* src/daemon/connections.cc:161-216 conn_new after the allocation: either
\* enableSSL / initializeEvent fails and the object is released, or the
\* state is set, the refcount incremented and the initial bucket entered.
conn_new(c) ==
    /\ Running
    /\ conns[c].pc = "conn_new"
    /\ \E ok \in BOOLEAN :
         IF ok
         THEN /\ SetConn(c, [conns[c] EXCEPT
                               !.state = "conn_new_cmd",
                               !.write_and_go = "conn_new_cmd",
                               !.refcount = @ + 1, !.thread = TRUE,
                               !.maxReqsPerEvent = DefaultReqs,
                               !.pc = "assoc_initial"])
              /\ UNCHANGED registry
         ELSE release_connection(c)
    /\ UNCHANGED <<bufvars, ncreates, workload, coll, shutvars, all_buckets, buckets_lock, assert_failed,
                   use_after_free>>

\* ------------------------------------------------------------ event loop
OnlyConn == UNCHANGED <<bufvars, ncreates, workload, coll, shutvars, all_buckets, buckets_lock, registry,
                        assert_failed, use_after_free>>

\* The state function of c that the worker is about to call.
AtState(c, st) ==
    /\ Running
    /\ conns[c].pc = "run"
    /\ conns[c].state = st

\* A state function returned true (the loop goes on) or false (yield).
\* A yield ends the invocation: the current event and the rest of the
\* budget are not read again (event_handler sets them anew); a destroyed
\* connection is released next.
Cont(r)  == r
Yield(r) ==
    [r EXCEPT !.pc = IF r.state = "conn_destroyed" THEN "ret" ELSE "idle",
              !.which = "none", !.numEvents = 0]

\* The client's pipeline: a connection with an unlimited backlog always has
\* another complete request buffered, any other may or may not.
MoreInput(r) == IF r.unlimited THEN {1} ELSE {0, 1}

\* One more command executed in this invocation of the event handler
\* (counted for the connections with an unlimited backlog).
Executed(r) == IF r.unlimited THEN [r EXCEPT !.ncmds = @ + 1] ELSE r

\* Events libevent can deliver for the registration ev.
Ready(r, which) ==
    \/ which = "read"  /\ r.ev \in {"read", "rw"}
    \/ which = "write" /\ r.ev \in {"write", "rw"}

\* src/daemon/memcached.cc:1314 event_handler: off the pending-io list,
\* the budget reset to the connection's requests-per-event, then
\* run_event_loop.
event_handler(c, which) ==
    /\ Running
    /\ c \in registry
    /\ WorkerIdle
    /\ conns[c].state # "init"
    /\ Ready(conns[c], which)
    /\ SetConn(c, [conns[c] EXCEPT
                     !.pio = FALSE, !.which = which,
                     !.numEvents = conns[c].maxReqsPerEvent,
                     !.ncmds = 0,
                     !.started = IF conns[c].unlimited
                                 THEN conns[c].state ELSE "none",
                     !.pc = "run"])
    /\ OnlyConn

\* The worker's pass over its pending-io list: each connection on it is run
\* once, with a budget of one request.
thread_libevent_process(c) ==
    /\ Running
    /\ c \in registry
    /\ WorkerIdle
    /\ conns[c].pio
    /\ SetConn(c, [conns[c] EXCEPT
                     !.pio = FALSE, !.which = "none", !.numEvents = 1,
                     !.ncmds = 0,
                     !.started = IF conns[c].unlimited THEN "pending_io"
                                 ELSE "none",
                     !.pc = "run"])
    /\ OnlyConn

\* src/daemon/connections.cc:132 run_event_loop after runStateMachinery:
\* a connection that reached conn_destroyed is released and freed.
run_event_loop_return(c) ==
    /\ Running
    /\ conns[c].pc = "ret"
    /\ conns[c].state = "conn_destroyed"
    /\ release_connection(c)
    /\ UNCHANGED <<bufvars, ncreates, workload, coll, shutvars, all_buckets, buckets_lock, assert_failed,
                   use_after_free>>

\* src/daemon/memcached.cc:790 is_bucket_dying: a shutdown was requested or
\* the bucket of the connection is not Ready.
is_bucket_dying(r) ==
    main.shutdown \/ all_buckets[r.bucketIndex].state # "Ready"

\* src/daemon/memcached.cc:821, 877, 890, 928 the state functions that call
\* is_bucket_dying before they do anything else.
tests_bucket_always(st) == TRUE

tests_bucket(st) ==
    st \in {"conn_ship_log", "conn_waiting", "conn_read", "conn_new_cmd"}

\* Connection::decrementNumEvents: count down, yield the new value.
decrementNumEvents(r) == r.numEvents - 1

\* Connection::havePendingInputData.
havePendingInputData(r) == r.rbytes > 0

\* src/daemon/memcached.cc:605 reset_cmd_handler: on to the next buffered
\* command, or wait for input.
reset_cmd_handler(r) ==
    [r EXCEPT !.item = FALSE,
              !.state = IF r.rbytes > 0 THEN "conn_parse_cmd"
                        ELSE "conn_waiting"]

\* src/daemon/memcached.cc:939 the budget test of conn_new_cmd.
budget_left_strict(n) == n > 0

budget_left(n) == n >= 0

\* src/daemon/memcached.cc:927 conn_new_cmd.
conn_new_cmd(c) ==
    /\ AtState(c, "conn_new_cmd")
    /\ LET r == conns[c]
           n == decrementNumEvents(r)
           d == [r EXCEPT !.numEvents = n] IN
       IF is_bucket_dying(r)
       THEN SetConn(c, Cont([r EXCEPT !.state = "conn_closing"]))
       ELSE IF budget_left(n)
       THEN SetConn(c, Cont(reset_cmd_handler(d)))
       ELSE IF havePendingInputData(r) \/ r.dcp
       THEN \E ok \in BOOLEAN :
              IF ok THEN SetConn(c, Yield([d EXCEPT !.ev = "write"]))
              ELSE SetConn(c, Cont([d EXCEPT !.state = "conn_closing"]))
       ELSE SetConn(c, Yield(d))
    /\ OnlyConn

\* src/daemon/memcached.cc:876 conn_waiting.
conn_waiting(c) ==
    /\ AtState(c, "conn_waiting")
    /\ LET r == conns[c] IN
       IF is_bucket_dying(r)
       THEN SetConn(c, Cont([r EXCEPT !.state = "conn_closing"]))
       ELSE \E ok \in BOOLEAN :
              IF ok
              THEN SetConn(c, Yield([r EXCEPT !.ev = "read",
                                              !.state = "conn_read"]))
              ELSE SetConn(c, Cont([r EXCEPT !.state = "conn_closing"]))
    /\ OnlyConn

\* src/daemon/memcached.cc:889 conn_read: tryReadNetwork finds no data,
\* data, or an error (socket or memory).
conn_read(c) ==
    /\ AtState(c, "conn_read")
    /\ LET r == conns[c] IN
       IF is_bucket_dying(r)
       THEN SetConn(c, Cont([r EXCEPT !.state = "conn_closing"]))
       ELSE \E res \in (IF r.unlimited THEN {"DataReceived", "Error"}
                       ELSE {"NoDataReceived", "DataReceived", "Error"}) :
              SetConn(c, Cont(
                CASE res = "NoDataReceived" ->
                       [r EXCEPT !.state = "conn_waiting"]
                  [] res = "DataReceived" ->
                       [r EXCEPT !.state = "conn_parse_cmd", !.rbytes = 1]
                  [] OTHER -> [r EXCEPT !.state = "conn_closing"]))
    /\ OnlyConn

\* The requests a client sends: a DCP stream only acknowledges.
Commands(r) ==
    IF r.dcp THEN {"incomplete", "ack"}
    ELSE IF workload \in {"tenant", "race"} THEN {"create", "delete"}
    ELSE IF r.unlimited THEN {"get", "get_async"}
    ELSE IF workload = "stream" THEN {"incomplete", "get", "dcp_open"}
    ELSE {"incomplete", "get", "stat", "get_async", "set", "select",
          "create", "delete"}

\* The response of a command is queued and the command counted.
Respond(r, next) ==
    Executed([r EXCEPT !.state = "conn_mwrite", !.write_and_go = next,
                       !.ewouldblock = FALSE, !.aio = "none", !.rlbytes = 0,
                       !.name = ""])

\* The engine answered EWOULDBLOCK: the connection is parked until
\* notify_io_complete.
WouldBlock(r) ==
    [r EXCEPT !.ewouldblock = TRUE, !.aio = "pending", !.ev = "none"]

\* src/daemon/memcached.cc:627 write_and_free: the dynamic buffer goes out
\* through conn_write.
write_and_free(r) ==
    [r EXCEPT !.state = "conn_write", !.write_and_go = "conn_new_cmd"]

\* The command executors behind try_read_command, for the commands that
\* neither block nor touch the bucket table.
execute(r, cmd, more) ==
    CASE cmd = "incomplete" -> [r EXCEPT !.state = "conn_waiting"]
      [] cmd = "get" -> [Respond(r, "conn_new_cmd") EXCEPT !.rbytes = more]
      [] cmd = "stat" -> [write_and_free(Executed(r)) EXCEPT !.rbytes = more]
      [] cmd = "set" -> [r EXCEPT !.state = "conn_nread", !.rlbytes = 1,
                                  !.rbytes = more, !.item = TRUE]
      [] cmd = "ack" -> Executed([r EXCEPT !.state = "conn_ship_log",
                                           !.rbytes = more])
      [] OTHER -> r

\* src/daemon/mcbp_validators.cc:714 create_bucket_validator, as far as the
\* key goes: klen is the length of the bucket name.
create_bucket_validator_no_limit(klen) ==
    IF klen = 0 THEN "EINVAL" ELSE "SUCCESS"

create_bucket_validator(klen) ==
    IF klen = 0 \/ klen > MAX_BUCKET_NAME_LENGTH THEN "EINVAL" ELSE "SUCCESS"

\* src/daemon/mcbp_validators.cc:750 delete_bucket_validator, as far as the
\* key goes.
delete_bucket_validator_none(klen) == "SUCCESS"

delete_bucket_validator(klen) == IF klen = 0 THEN "EINVAL" ELSE "SUCCESS"

\* src/daemon/memcached.cc:924 what conn_parse_cmd returns: the loop goes
\* on unless the command set ewouldblock.
conn_parse_cmd_return_true(r) == Cont(r)

conn_parse_cmd_return(r) == IF r.ewouldblock THEN Yield(r) ELSE Cont(r)

\* src/daemon/memcached.cc:918 conn_parse_cmd: try_read_command executes the
\* buffered command; the state function yields iff ewouldblock is set
\* (returns: the function returns in the same step; otherwise the
\* connection is left at line 924, the command executed).
at_return(r) == [r EXCEPT !.pc = "parse_ret"]

parse_cmd(c, returns) ==
    /\ AtState(c, "conn_parse_cmd")
    /\ LET r == conns[c]
           ret(x) == IF returns THEN conn_parse_cmd_return(x)
                     ELSE at_return(x) IN
       IF r.aio = "done"
       THEN \* the parked command is executed again and completes
            /\ \E more \in MoreInput(r) :
                 SetConn(c, ret(
                               [Respond(r, "conn_new_cmd") EXCEPT
                                     !.rbytes = more]))
            /\ UNCHANGED ncreates
       ELSE \E cmd \in Commands(r), more \in MoreInput(r) :
           /\ ncreates' = IF cmd = "create" THEN ncreates + 1 ELSE ncreates
           /\ CASE cmd \in {"incomplete", "get", "stat", "set", "ack"} ->
                  /\ (cmd = "incomplete" => more = 1)
                  /\ SetConn(c, ret(execute(r, cmd, more)))
             [] cmd = "get_async" ->
                  /\ more = 1
                  /\ SetConn(c, ret(WouldBlock(r)))
             [] cmd = "select" ->
                  \E nm \in Names :
                    SetConn(c, Executed([r EXCEPT !.pc = "assoc_dis",
                                           !.name = nm, !.rbytes = more]))
             [] cmd = "create" ->
                  /\ ncreates < CreateCap
                  /\ \E nm \in RequestNames :
                       IF create_bucket_validator(Len(nm)) # "SUCCESS"
                       THEN SetConn(c, ret(
                                [Respond(r, "conn_new_cmd") EXCEPT
                                     !.rbytes = more]))
                       ELSE
                       SetConn(c, ret([WouldBlock(r) EXCEPT
                         !.state = "conn_create_bucket", !.name = nm,
                         !.rbytes = more, !.tpc = "cr_lock"]))
             [] cmd = "delete" ->
                  \E nm \in RequestNames :
                    IF delete_bucket_validator(Len(nm)) # "SUCCESS"
                    THEN SetConn(c, ret(
                             [Respond(r, "conn_new_cmd") EXCEPT
                                  !.rbytes = more]))
                    ELSE
                    SetConn(c, ret([WouldBlock(r) EXCEPT
                         !.state = "conn_delete_bucket", !.name = nm,
                         !.rbytes = more, !.tpc = "del_scan", !.tii = 0,
                         !.tidx = 0, !.tret = "KEY_ENOENT"]))
             [] cmd = "dcp_open" ->
                  \E reserve \in BOOLEAN :
                    SetConn(c, ret(
                               [Respond(r, "conn_ship_log") EXCEPT
                         !.dcp = TRUE, !.rbytes = more,
                         !.refcount = IF reserve THEN @ + 1 ELSE @]))
    /\ UNCHANGED <<bufvars, workload, coll, shutvars, all_buckets, buckets_lock, registry,
                   assert_failed, use_after_free>>

conn_parse_cmd(c) == parse_cmd(c, TRUE)

\* src/daemon/memcached.cc:919 try_read_command on its own: the command has
\* been executed (a create-bucket or delete-bucket has started its thread)
\* and conn_parse_cmd has still to return.
try_read_command(c) == parse_cmd(c, FALSE)

\* src/daemon/memcached.cc:924 conn_parse_cmd returns; if it returns false
\* run_event_loop returns the buffers and event_handler unlocks the thread
\* (src/daemon/connections.cc:141, src/daemon/memcached.cc:1382).
conn_parse_cmd_returns(c) ==
    /\ Running
    /\ conns[c].pc = "parse_ret"
    /\ SetConn(c, conn_parse_cmd_return([conns[c] EXCEPT !.pc = "run"]))
    /\ OnlyConn

\* src/daemon/memcached.cc:972 conn_nread: the body is complete and the
\* command runs (and may block), or more of it is taken from the read
\* buffer or the socket.
conn_nread(c) ==
    /\ AtState(c, "conn_nread")
    /\ LET r == conns[c] IN
       IF r.rlbytes = 0
       THEN \E blocks \in (IF r.aio = "done" THEN {FALSE} ELSE BOOLEAN) :
              IF blocks THEN SetConn(c, Yield(WouldBlock(r)))
              ELSE SetConn(c, Cont(Respond(r, "conn_new_cmd")))
       ELSE IF r.rbytes > 0
       THEN \E left \in {0, 1}, more \in {0, 1} :
              /\ (left = 1 => more = 0)
              /\ SetConn(c, Cont([r EXCEPT !.rlbytes = left,
                                           !.rbytes = more]))
       ELSE \E res \in {"data", "eof", "blocking", "nomask", "error"} :
              CASE res = "data" ->
                     \E left \in {0, 1} :
                        SetConn(c, Cont([r EXCEPT !.rlbytes = left]))
                [] res = "blocking" ->
                     SetConn(c, Yield([r EXCEPT !.ev = "read"]))
                [] OTHER ->
                     SetConn(c, Cont([r EXCEPT !.state = "conn_closing"]))
    /\ OnlyConn

\* src/daemon/memcached.cc:1073 where a completed transmit sends the
\* connection.
mwrite_complete_next_parse(r) == "conn_parse_cmd"

mwrite_complete_next(r) == r.write_and_go

\* src/daemon/memcached.cc:1057 conn_mwrite: transmit completes (on to
\* write_and_go), fails hard (Connection::transmit closes; txerr records
\* it), or would block with the response partly written (sent).
mwrite(r) ==
    { Cont([r EXCEPT !.state = mwrite_complete_next(r),
                     !.write_and_go = "conn_new_cmd", !.sent = FALSE]),
      Cont([r EXCEPT !.state = "conn_closing", !.txerr = TRUE]),
      Yield([r EXCEPT !.ev = "write", !.sent = TRUE]) }

\* A state function that looks at the bucket first closes the connection
\* of a dying bucket; conn_write and conn_mwrite go straight to transmit.
bucket_test(r, st, outcomes) ==
    IF tests_bucket(st) /\ is_bucket_dying(r)
    THEN {Cont([r EXCEPT !.state = "conn_closing"])}
    ELSE outcomes

conn_mwrite(c) ==
    /\ AtState(c, "conn_mwrite")
    /\ \E n \in bucket_test(conns[c], "conn_mwrite", mwrite(conns[c])) :
          SetConn(c, n)
    /\ OnlyConn

\* src/daemon/memcached.cc:1039 conn_write: build the iov if there is none
\* yet, that is before the first transmit (or close), then conn_mwrite.
conn_write(c) ==
    /\ AtState(c, "conn_write")
    /\ \E n \in bucket_test(conns[c], "conn_write",
                 mwrite(conns[c]) \cup
                 (IF conns[c].sent THEN {}
                  ELSE {Cont([conns[c] EXCEPT !.state = "conn_closing"])})) :
          SetConn(c, n)
    /\ OnlyConn

\* The engine's dcp step behind ship_mcbp_dcp_log: something to send, no
\* more for now (EWOULDBLOCK), or disconnect.
ship_mcbp_dcp_log(r) ==
    { [r EXCEPT !.state = "conn_mwrite", !.write_and_go = "conn_ship_log",
                !.aio = "none"],
      [r EXCEPT !.ewouldblock = TRUE, !.aio = "pending"],
      [r EXCEPT !.state = "conn_closing", !.aio = "none"] }

\* src/daemon/memcached.cc:820 conn_ship_log.
conn_ship_log(c) ==
    /\ AtState(c, "conn_ship_log")
    /\ LET r == conns[c] IN
       IF is_bucket_dying(r)
       THEN SetConn(c, Cont([r EXCEPT !.state = "conn_closing"]))
       ELSE IF r.socketClosed
       THEN SetConn(c, Yield(r))
       ELSE \E ok \in BOOLEAN :
         LET Mask(n, mask, cont) ==
               IF ok THEN (IF cont THEN Cont([n EXCEPT !.ev = mask])
                           ELSE Yield([n EXCEPT !.ev = mask]))
               ELSE (IF cont THEN Cont([n EXCEPT !.state = "conn_closing"])
                     ELSE Yield([n EXCEPT !.state = "conn_closing"]))
         IN
         IF r.which = "read" \/ r.rbytes > 0
         THEN \E cmd \in {"incomplete", "ack"}, more \in MoreInput(r) :
                LET x == [r EXCEPT !.numEvents = r.maxReqsPerEvent]
                    n == IF r.rbytes > 0 /\ cmd = "ack"
                         THEN execute(x, "ack", more)
                         ELSE [x EXCEPT !.state = "conn_read"]
                IN /\ (r.rbytes = 0 \/ cmd = "incomplete" => more = r.rbytes)
                   /\ SetConn(c, Mask(n, "rw", TRUE))
         ELSE IF r.which = "write"
         THEN LET n == decrementNumEvents(r)
                  d == [r EXCEPT !.numEvents = n, !.ewouldblock = FALSE] IN
              IF budget_left(n)
              THEN \E x \in ship_mcbp_dcp_log(d) :
                     IF x.ewouldblock
                     THEN SetConn(c, Mask(x, "read", FALSE))
                     ELSE SetConn(c, Mask(x, "rw", TRUE))
              ELSE SetConn(c, Mask([r EXCEPT !.numEvents = n], "rw", FALSE))
         ELSE SetConn(c, Mask(r, "rw", FALSE))
    /\ OnlyConn

\* src/daemon/connections.cc:256 conn_cleanup_engine_allocations: the item
\* of the command in flight goes back to the engine.
conn_cleanup_engine_allocations(r) == [r EXCEPT !.item = FALSE]

\* src/daemon/memcached.cc:1141 where conn_closing sends the connection.
closing_next_refcount_only(r) ==
    IF r.refcount > 1 THEN "conn_pending_close" ELSE "conn_immediate_close"

closing_next(r) ==
    IF r.refcount > 1 \/ r.ewouldblock THEN "conn_pending_close"
    ELSE "conn_immediate_close"

\* src/daemon/memcached.cc:1132 conn_closing: no more events, the socket
\* closed (and with it whatever was being written), the engine's
\* allocations released.
conn_closing(c) ==
    /\ AtState(c, "conn_closing")
    /\ SetConn(c, Cont([conn_cleanup_engine_allocations(conns[c]) EXCEPT
                           !.ev = "none", !.socketClosed = TRUE,
                           !.sent = FALSE, !.txerr = FALSE,
                           !.state = closing_next(conns[c])]))
    /\ OnlyConn

\* src/daemon/memcached.cc:213-238 perform_callbacks(ON_DISCONNECT, NULL, c):
\* the handlers of the bucket the connection is bound to are called for it
\* (notified: the slot whose handlers were called last, -1 for none yet).
perform_callbacks_skipped(r) == r

perform_callbacks(r) == [r EXCEPT !.notified = r.bucketIndex]

\* src/daemon/memcached.cc:1098 the test conn_pending_close makes before it
\* lets the connection go.
pending_close_holds_late(r) == r.refcount > 2

pending_close_holds(r) == r.refcount > 1

\* src/daemon/memcached.cc:1085 conn_pending_close.
conn_pending_close(c) ==
    /\ AtState(c, "conn_pending_close")
    /\ conns[c].socketClosed
    /\ IF pending_close_holds(conns[c])
       THEN SetConn(c, Yield(perform_callbacks(conns[c])))
       ELSE SetConn(c, Cont([perform_callbacks(conns[c]) EXCEPT
                               !.state = "conn_immediate_close"]))
    /\ OnlyConn

\* ------------------------------------------------------- the buffer loan
\* malloc: a buffer that is not allocated (the lowest, addresses are
\* reused after free), or 0 (NULL) when there is none.
malloc(h) ==
    IF \E b \in 1 .. MaxBufs : b \notin h
    THEN CHOOSE b \in 1 .. MaxBufs :
            b \notin h /\ \A x \in 1 .. MaxBufs : x \notin h => b <= x
    ELSE 0

\* src/daemon/connections.cc:497 what conn_loan_single_buffer leaves in the
\* thread's slot after it copied the slot to the connection.
loaned_thread_buf_kept(tb) == tb

loaned_thread_buf(tb) == [tb EXCEPT !.buf = 0]

\* src/daemon/connections.cc:490 the connection already has a buffer.
has_partial_buffer(cb) == cb.buf # 0 /\ (cb.curr # 0 \/ cb.bytes # 0)

has_buffer(cb) == cb.buf # 0

\* src/daemon/connections.cc:503-513 malloc returned NULL: the connection
\* is set to conn_closing and is left without the buffer.
loan_failed_ignored(tb, cb, h) ==
    [res |-> "Existing", thread |-> tb, conn |-> cb, heap |-> h,
     closing |-> FALSE]

loan_failed(tb, cb, h) ==
    [res |-> "Existing", thread |-> tb, conn |-> cb, heap |-> h,
     closing |-> TRUE]

\* src/daemon/connections.cc:485 conn_loan_single_buffer: the thread's slot
\* tb, the connection's net_buf cb and the heap h after the call; ok says
\* whether malloc succeeds; closing: the connection was set to conn_closing.
conn_loan_single_buffer(tb, cb, h, ok) ==
    IF has_buffer(cb)
    THEN [res |-> "Existing", thread |-> tb, conn |-> cb, heap |-> h,
          closing |-> FALSE]
    ELSE IF tb.buf # 0
    THEN [res |-> "Loaned", thread |-> loaned_thread_buf(tb), conn |-> tb,
          heap |-> h, closing |-> FALSE]
    ELSE IF ok /\ malloc(h) # 0
    THEN [res |-> "Allocated", thread |-> tb,
          conn |-> [buf |-> malloc(h), curr |-> 0, bytes |-> 0],
          heap |-> h \cup {malloc(h)}, closing |-> FALSE]
    ELSE loan_failed(tb, cb, h)

\* src/daemon/connections.cc:532 the test of a clean buffer.
clean_by_bytes(cb) == cb.bytes = 0

clean(cb) == cb.curr = 0 /\ cb.bytes = 0

\* src/daemon/connections.cc:525 conn_return_single_buffer; bad: free() got
\* a buffer that is not allocated.
conn_return_single_buffer(tb, cb, h) ==
    IF cb.buf = 0
    THEN [thread |-> tb, conn |-> cb, heap |-> h, bad |-> FALSE]
    ELSE IF clean(cb)
    THEN IF tb.buf = 0
         THEN [thread |-> cb, conn |-> [cb EXCEPT !.buf = 0, !.curr = 0],
               heap |-> h, bad |-> FALSE]
         ELSE [thread |-> tb, conn |-> [cb EXCEPT !.buf = 0, !.curr = 0],
               heap |-> h \ {cb.buf}, bad |-> cb.buf \notin h]
    ELSE [thread |-> tb, conn |-> cb, heap |-> h, bad |-> FALSE]

\* The buffers of the thread, of connection c and the heap.
BufWorld(c) ==
    [thread |-> thread_buf, conn |-> net_buf[c], heap |-> heap,
     bad |-> double_free]

SetBufWorld(c, w) ==
    /\ thread_buf' = w.thread
    /\ net_buf' = [net_buf EXCEPT ![c] = w.conn]
    /\ heap' = w.heap
    /\ double_free' = w.bad

\* src/daemon/connections.cc:394 a TAP or DCP connection keeps its buffers.
keeps_buffers_never(dcp) == FALSE

keeps_buffers(dcp) == dcp

\* src/daemon/connections.cc:384 conn_return_buffers of a connection with
\* a thread: a TAP / DCP connection keeps its buffers, any other returns
\* the read and then the write buffer.
conn_return_buffers(w, dcp) ==
    IF keeps_buffers(dcp) THEN w
    ELSE LET r  == conn_return_single_buffer(w.thread.read, w.conn.read,
                                             w.heap)
             wr == conn_return_single_buffer(w.thread.write, w.conn.write,
                                             r.heap)
         IN [thread |-> [read |-> r.thread, write |-> wr.thread],
             conn |-> [read |-> r.conn, write |-> wr.conn],
             heap |-> wr.heap, bad |-> w.bad \/ r.bad \/ wr.bad]

\* src/daemon/connections.cc:266 conn_cleanup: the cursors are reset, the
\* DCP flag cleared and the buffers returned before the thread is forgotten.
conn_cleanup(w) ==
    conn_return_buffers(
       [w EXCEPT !.conn.read.curr = 0, !.conn.read.bytes = 0,
                 !.conn.write.curr = 0, !.conn.write.bytes = 0], FALSE)

\* src/daemon/connections.cc:357 conn_loan_buffers: the read and then the
\* write buffer; okr and okw say whether a malloc for them succeeds.
conn_loan_buffers(w, okr, okw) ==
    LET r  == conn_loan_single_buffer(w.thread.read, w.conn.read, w.heap,
                                      okr)
        wr == conn_loan_single_buffer(w.thread.write, w.conn.write,
                                      r.heap, okw)
    IN [thread |-> [read |-> r.thread, write |-> wr.thread],
        conn |-> [read |-> r.conn, write |-> wr.conn],
        heap |-> wr.heap, bad |-> w.bad,
        closing |-> r.closing \/ wr.closing]

\* src/daemon/connections.cc:294 conn_close with conn_cleanup: off the
\* pending-io list, no thread any more, state conn_destroyed.
conn_close(r) ==
    [r EXCEPT !.pio = FALSE, !.dcp = FALSE, !.rbytes = 0,
              !.thread = FALSE, !.state = "conn_destroyed"]

\* src/daemon/memcached.cc:1106 conn_immediate_close: the disconnect
\* callbacks, disassociate_bucket, conn_close (whose conn_cleanup returns
\* the buffers); returns false.
conn_immediate_close(c) ==
    /\ AtState(c, "conn_immediate_close")
    /\ conns[c].socketClosed
    /\ all_buckets' = disassociate_bucket_b(all_buckets, conns[c].bucketIndex)
    /\ SetBufWorld(c, conn_cleanup(BufWorld(c)))
    /\ SetConn(c, Yield(conn_close(disassociate_bucket_c(
                                      perform_callbacks(conns[c])))))
    /\ UNCHANGED <<ncreates, workload, coll, shutvars, buckets_lock, registry,
                   assert_failed, use_after_free>>

\* src/daemon/memcached.cc:1260 conn_create_bucket and :1287
\* conn_delete_bucket: the result the bucket thread left in aiostat is
\* answered (ENGINE_DISCONNECT and EWOULDBLOCK close the connection).
conn_bucket_done(r) ==
    IF r.aiostat \in {"EWOULDBLOCK", "DISCONNECT"}
    THEN [r EXCEPT !.aiostat = "SUCCESS", !.ewouldblock = FALSE,
                   !.aio = "none", !.name = "", !.state = "conn_closing"]
    ELSE [Respond(r, "conn_new_cmd") EXCEPT !.aiostat = "SUCCESS"]

conn_create_bucket(c) ==
    /\ AtState(c, "conn_create_bucket")
    /\ SetConn(c, Cont(conn_bucket_done(conns[c])))
    /\ OnlyConn

conn_delete_bucket(c) ==
    /\ AtState(c, "conn_delete_bucket")
    /\ SetConn(c, Cont(conn_bucket_done(conns[c])))
    /\ OnlyConn

\* ------------------------------------------- completions and the sweep
\* notify_io_complete called by an engine for a parked command: the result
\* is stored, the connection put on its thread's pending-io list.  The
\* connection's address is all the engine has: if the object was freed the
\* call works on freed memory.
notify_io_complete(c) ==
    /\ Running
    /\ conns[c].aio = "pending"
    /\ conns[c].tpc = "none"
    /\ WorkerIdle
    /\ IF conns[c].state = "free"
       THEN /\ use_after_free' = TRUE
            /\ UNCHANGED conns
       ELSE /\ SetConn(c, [conns[c] EXCEPT !.aio = "done", !.pio = TRUE])
            /\ UNCHANGED use_after_free
    /\ UNCHANGED <<bufvars, ncreates, workload, coll, shutvars, all_buckets, buckets_lock, registry,
                   assert_failed>>

\* src/daemon/memcached.cc:1911 release_cookie: an engine drops a reference
\* it reserved; the connection is put on the pending-io list.
release_cookie(c) ==
    /\ Running
    /\ c \in registry
    /\ WorkerIdle
    /\ conns[c].refcount > 1
    /\ SetConn(c, [conns[c] EXCEPT !.refcount = @ - 1, !.pio = TRUE])
    /\ OnlyConn

\* A delete-bucket thread is waiting for its bucket to drain.
DeleteWaiting == \E d \in Conns : conns[d].tpc = "del_wait"

\* src/daemon/connections.cc:64 the connections signal_idle_clients wakes.
signalled_states == {"conn_read", "conn_waiting"}

\* src/daemon/connections.cc:59 signal_idle_clients, run by the worker of c
\* for a Destroying bucket (notify_thread_bucket_deletion,
\* src/daemon/memcached.cc:2407) or, once a shutdown is requested, for
\* every bucket (event_handler, src/daemon/memcached.cc:1365-1368): an idle
\* connection of that bucket gets write interest, so that its handler runs.
signal_idle_clients(c) ==
    /\ Running
    /\ c \in registry
    /\ WorkerIdle
    /\ conns[c].bucketIndex \in Slots
    /\ \/ main.shutdown
       \/ /\ DeleteWaiting
          /\ all_buckets[conns[c].bucketIndex].state = "Destroying"
    /\ conns[c].state \in signalled_states
    /\ conns[c].ev # "rw"
    /\ SetConn(c, [conns[c] EXCEPT !.ev = "rw"])
    /\ OnlyConn

\* ---------------------------------------------------------- delete-bucket
ThreadAt(d, at) == Running /\ conns[d].tpc = at

BucketsOnly(d, r) ==
    /\ SetConn(d, r)
    /\ UNCHANGED <<bufvars, ncreates, workload, coll, shutvars, buckets_lock, registry, assert_failed,
                   use_after_free>>

\* src/daemon/memcached.cc:2436 what do_delete_bucket answers for the slot
\* that carries the name.
delete_scan_ret_always(b) == "SUCCESS"

delete_scan_ret(b) == IF b.state = "Ready" THEN "SUCCESS" ELSE "KEY_EEXISTS"

\* src/daemon/memcached.cc:2434 the slot carries the name of the request.
delete_name_differs(name, b) == name # b.name

delete_name_match(name, b) == name = b.name

\* src/daemon/memcached.cc:2432-2456 do_delete_bucket, one iteration of the
\* scan under the mutex of slot ii: the slot carrying the name is marked
\* Destroying if it is Ready; any other answer returns at once.
delete_scan(d) ==
    /\ ThreadAt(d, "del_scan")
    /\ LET r  == conns[d]
           ii == r.tii
           b  == all_buckets[ii] IN
       IF delete_name_match(r.name, b)
       THEN LET ret == delete_scan_ret(b) IN
            /\ all_buckets' = IF ret = "SUCCESS"
                              THEN [all_buckets EXCEPT
                                       ![ii].state = "Destroying"]
                              ELSE all_buckets
            /\ BucketsOnly(d, [r EXCEPT !.tidx = ii, !.tret = ret,
                                 !.tpc = IF ret = "SUCCESS" THEN "del_self"
                                         ELSE "notify"])
       ELSE /\ UNCHANGED all_buckets
            /\ BucketsOnly(d, [r EXCEPT !.tii = ii + 1,
                                 !.tpc = IF ii + 1 < MaxBuckets
                                         THEN "del_scan" ELSE "notify"])

\* src/daemon/memcached.cc:2464 the requesting connection is connected to
\* the bucket it asked to delete.
delete_self_never(r) == FALSE

delete_self_connected(r) == r.tii = r.bucketIndex

\* src/daemon/memcached.cc:2463-2469 the requesting connection leaves the
\* bucket if it is connected to it; the workers are told to start
\* invalidating connections.
delete_self(d) ==
    /\ ThreadAt(d, "del_self")
    /\ IF conns[d].state = "free"
       THEN /\ use_after_free' = TRUE
            /\ UNCHANGED <<all_buckets, conns>>
       ELSE /\ UNCHANGED use_after_free
            /\ IF delete_self_connected(conns[d])
               THEN /\ all_buckets' = disassociate_bucket_b(all_buckets,
                                           conns[d].bucketIndex)
                    /\ SetConn(d, [disassociate_bucket_c(conns[d]) EXCEPT
                                      !.tpc = "del_wait"])
               ELSE /\ UNCHANGED all_buckets
                    /\ SetConn(d, [conns[d] EXCEPT !.tpc = "del_wait"])
    /\ UNCHANGED <<bufvars, ncreates, workload, coll, shutvars, buckets_lock, registry, assert_failed>>

\* src/daemon/memcached.cc:2473 the test of the wait loop.
delete_drained_at_once(b) == TRUE

delete_drained(b) == ~(b.clients > 0)

\* src/daemon/memcached.cc:2471-2492 the wait for the clients to go (each
\* round of the loop notifies the workers again and waits a second).
delete_wait(d) ==
    /\ ThreadAt(d, "del_wait")
    /\ delete_drained(all_buckets[conns[d].tidx])
    /\ UNCHANGED all_buckets
    /\ BucketsOnly(d, [conns[d] EXCEPT !.tpc = "del_assert"])

\* src/daemon/connections.cc:75 assert_no_associations.
no_associations(idx) ==
    \A c \in registry : conns[c].bucketIndex # idx

delete_assert(d) ==
    /\ ThreadAt(d, "del_assert")
    /\ IF no_associations(conns[d].tidx)
       THEN /\ SetConn(d, [conns[d] EXCEPT !.tpc = "del_destroy"])
            /\ UNCHANGED assert_failed
       ELSE /\ assert_failed' = TRUE
            /\ UNCHANGED conns
    /\ UNCHANGED <<bufvars, ncreates, workload, coll, shutvars, all_buckets, buckets_lock, registry,
                   use_after_free>>

\* The engine's destroy entry point.
engine_destroy(ab, idx) ==
    [ab EXCEPT ![idx].engine = "destroyed", ![idx].ndestroy = @ + 1]

\* src/daemon/memcached.cc:2502 the engine is destroyed.
delete_destroy(d) ==
    /\ ThreadAt(d, "del_destroy")
    /\ all_buckets' = engine_destroy(all_buckets, conns[d].tidx)
    /\ BucketsOnly(d, [conns[d] EXCEPT !.tpc = "del_cleanup"])

\* src/daemon/memcached.cc:2510-2532 the slot is cleaned up and set to None.
delete_cleanup(d) ==
    /\ ThreadAt(d, "del_cleanup")
    /\ all_buckets' = [all_buckets EXCEPT ![conns[d].tidx] =
                         [@ EXCEPT !.state = "None", !.engine = "null",
                                   !.name = "", !.ndestroy = 0,
                                   !.handlers = FALSE, !.cond = FALSE]]
    /\ BucketsOnly(d, [conns[d] EXCEPT !.tret = "SUCCESS", !.tpc = "notify"])

\* src/daemon/memcached.cc:2404 and :2568 the bucket thread reports its
\* result with notify_io_complete and ends.
bucket_thread_notify(d) ==
    /\ ThreadAt(d, "notify")
    /\ WorkerIdle
    /\ IF conns[d].state = "free"
       THEN /\ use_after_free' = TRUE
            /\ UNCHANGED conns
       ELSE /\ SetConn(d, [conns[d] EXCEPT
                             !.aio = "done", !.aiostat = conns[d].tret,
                             !.pio = TRUE, !.tpc = "none", !.tii = 0,
                             !.tidx = 0, !.tret = "SUCCESS",
                             !.first_free = -1, !.found = FALSE])
            /\ UNCHANGED use_after_free
    /\ UNCHANGED <<bufvars, ncreates, workload, coll, shutvars, all_buckets, buckets_lock, registry,
                   assert_failed>>

\* ---------------------------------------------------------- create-bucket
\* src/daemon/memcached.cc:2288 cb_mutex_enter(&buckets_lock) goes on when
\* no thread holds the lock.
buckets_lock_ignored(l) == TRUE

buckets_lock_free(l) == l = 0

\* src/daemon/memcached.cc:2288 the table lock is taken.
create_lock(d) ==
    /\ ThreadAt(d, "cr_lock")
    /\ buckets_lock_free(buckets_lock)
    /\ buckets_lock' = d
    /\ SetConn(d, [conns[d] EXCEPT !.tpc = "cr_scan", !.tii = 0,
                                  !.first_free = -1, !.found = FALSE])
    /\ UNCHANGED <<bufvars, ncreates, workload, coll, shutvars, all_buckets, registry, assert_failed,
                   use_after_free>>

\* src/daemon/memcached.cc:2295 the slot carries the name of the request
\* (whatever its state).
name_taken_if_ready(name, b) == b.state = "Ready" /\ name = b.name

name_taken(name, b) == name = b.name

\* src/daemon/memcached.cc:2292 the first free slot seen so far, after a
\* look at slot ii.
first_free_latest(ff, b, ii) == IF b.state = "None" THEN ii ELSE ff

first_free_after(ff, b, ii) ==
    IF ff = -1 /\ b.state = "None" THEN ii ELSE ff

\* src/daemon/memcached.cc:2290-2299 one iteration of the scan for the name
\* and for the first free slot.
create_scan(d) ==
    /\ ThreadAt(d, "cr_scan")
    /\ conns[d].tii < MaxBuckets
    /\ ~conns[d].found
    /\ LET r == conns[d]
           b == all_buckets[r.tii] IN
       SetConn(d, [r EXCEPT
          !.first_free = first_free_after(r.first_free, b, r.tii),
          !.found = name_taken(r.name, b),
          !.tii = @ + 1])
    /\ UNCHANGED <<bufvars, ncreates, workload, coll, shutvars, all_buckets, buckets_lock, registry,
                   assert_failed, use_after_free>>

\* src/daemon/memcached.cc:2301-2323 the verdict of the scan: the name
\* exists, the table is full, or the first free slot is reserved (and the
\* top-keys allocation may fail); the table lock is released.
create_reserve(d) ==
    /\ ThreadAt(d, "cr_scan")
    /\ conns[d].tii >= MaxBuckets \/ conns[d].found
    /\ buckets_lock' = 0
    /\ LET r == conns[d] IN
       IF r.found
       THEN /\ SetConn(d, [r EXCEPT !.tret = "KEY_EEXISTS", !.tpc = "notify"])
            /\ UNCHANGED all_buckets
       ELSE IF r.first_free = -1
       THEN /\ SetConn(d, [r EXCEPT !.tret = "E2BIG", !.tpc = "notify"])
            /\ UNCHANGED all_buckets
       ELSE /\ all_buckets' = [all_buckets EXCEPT ![r.first_free] =
                                 [@ EXCEPT !.state = "Creating",
                                           !.name = r.name]]
            /\ \E ok \in BOOLEAN :
                 SetConn(d, [r EXCEPT
                    !.tidx = r.first_free,
                    !.tret = IF ok THEN "SUCCESS" ELSE "ENOMEM",
                    !.tpc = IF ok THEN "cr_engine" ELSE "notify"])
    /\ UNCHANGED <<bufvars, ncreates, workload, coll, shutvars, registry, assert_failed, use_after_free>>

\* src/daemon/memcached.cc:2329-2362 new_engine_instance: the engine is
\* built and the slot Initializing, or the slot goes back to None (the
\* result stays ENGINE_SUCCESS).
create_engine(d) ==
    /\ ThreadAt(d, "cr_engine")
    /\ \E ok \in BOOLEAN :
         IF ok
         THEN /\ all_buckets' = [all_buckets EXCEPT ![conns[d].tidx] =
                   [@ EXCEPT !.state = "Initializing", !.engine = "live",
                             !.ndestroy = 0]]
              /\ BucketsOnly(d, [conns[d] EXCEPT !.tpc = "cr_init"])
         ELSE /\ all_buckets' = [all_buckets EXCEPT ![conns[d].tidx] =
                   [@ EXCEPT !.state = "None", !.name = ""]]
              /\ BucketsOnly(d, [conns[d] EXCEPT !.tpc = "notify"])

\* src/daemon/memcached.cc:2338-2345 the state of the slot after the
\* engine's initialize returned.
initialized_state_ready(ok) == "Ready"

initialized_state(ok) == IF ok THEN "Ready" ELSE "Destroying"

\* src/daemon/memcached.cc:258-279 register_callback(eh, ON_DISCONNECT, ..):
\* the handler is appended to the handlers of the slot that holds the engine.
register_callback(ab, idx) == [ab EXCEPT ![idx].handlers = TRUE]

\* src/daemon/memcached.cc:2336-2345 the engine's initialize, which registers
\* the engine's ON_DISCONNECT handler: Ready, or Destroying on the way back
\* to None.
create_initialize(d) ==
    /\ ThreadAt(d, "cr_init")
    /\ \E ok \in BOOLEAN :
         /\ all_buckets' = [register_callback(all_buckets, conns[d].tidx)
                              EXCEPT
                              ![conns[d].tidx].state = initialized_state(ok)]
         /\ BucketsOnly(d, [conns[d] EXCEPT
                              !.tpc = IF ok THEN "notify" ELSE "cr_destroy"])

\* src/daemon/memcached.cc:2346 the engine that failed to initialize is
\* destroyed.
create_destroy(d) ==
    /\ ThreadAt(d, "cr_destroy")
    /\ all_buckets' = engine_destroy(all_buckets, conns[d].tidx)
    /\ BucketsOnly(d, [conns[d] EXCEPT !.tpc = "cr_none"])

\* src/daemon/memcached.cc:2349-2354 the slot is set to None, its name
\* cleared; the result is ENGINE_NOT_STORED.
create_none(d) ==
    /\ ThreadAt(d, "cr_none")
    /\ all_buckets' = [all_buckets EXCEPT ![conns[d].tidx] =
                         [@ EXCEPT !.state = "None", !.name = ""]]
    /\ BucketsOnly(d, [conns[d] EXCEPT !.tret = "NOT_STORED",
                                      !.tpc = "notify"])

\* ------------------------------------------------------- specification
Next ==
    \E c \in Conns :
       \/ allocate_connection(c)
       \/ conn_new(c)
       \/ associate_initial_bucket(c)
       \/ associate_bucket_leave(c)
       \/ associate_bucket_scan(c)
       \/ associate_bucket_nobucket(c)
       \/ \E which \in {"read", "write"} : event_handler(c, which)
       \/ thread_libevent_process(c)
       \/ run_event_loop_return(c)
       \/ conn_new_cmd(c)
       \/ conn_waiting(c)
       \/ conn_read(c)
       \/ conn_parse_cmd(c)
       \/ conn_nread(c)
       \/ conn_write(c)
       \/ conn_mwrite(c)
       \/ conn_ship_log(c)
       \/ conn_closing(c)
       \/ conn_pending_close(c)
       \/ conn_immediate_close(c)
       \/ conn_create_bucket(c)
       \/ conn_delete_bucket(c)
       \/ notify_io_complete(c)
       \/ release_cookie(c)
       \/ signal_idle_clients(c)
       \/ delete_scan(c)
       \/ delete_self(c)
       \/ delete_wait(c)
       \/ delete_assert(c)
       \/ delete_destroy(c)
       \/ delete_cleanup(c)
       \/ bucket_thread_notify(c)
       \/ create_lock(c)
       \/ create_scan(c)
       \/ create_reserve(c)
       \/ create_engine(c)
       \/ create_initialize(c)
       \/ create_destroy(c)
       \/ create_none(c)

Spec == Init /\ [][Next]_vars

\* What the worker thread does without waiting for a client: it sets up an
\* accepted connection, runs the state machine of a connection up to its
\* next yield, serves its pending-io list and sweeps for deleted buckets.
WorkerStep(c) ==
    \/ conn_new(c)
    \/ associate_initial_bucket(c)
    \/ associate_bucket_leave(c)
    \/ associate_bucket_scan(c)
    \/ associate_bucket_nobucket(c)
    \/ thread_libevent_process(c)
    \/ run_event_loop_return(c)
    \/ conn_new_cmd(c)
    \/ conn_waiting(c)
    \/ conn_read(c)
    \/ conn_parse_cmd(c)
    \/ conn_nread(c)
    \/ conn_write(c)
    \/ conn_mwrite(c)
    \/ conn_ship_log(c)
    \/ conn_closing(c)
    \/ conn_pending_close(c)
    \/ conn_immediate_close(c)
    \/ conn_create_bucket(c)
    \/ conn_delete_bucket(c)
    \/ signal_idle_clients(c)

\* What the create-bucket or delete-bucket thread of a request does.
BucketThreadStep(d) ==
    \/ delete_scan(d)
    \/ delete_self(d)
    \/ delete_wait(d)
    \/ delete_assert(d)
    \/ delete_destroy(d)
    \/ delete_cleanup(d)
    \/ bucket_thread_notify(d)
    \/ create_lock(d)
    \/ create_scan(d)
    \/ create_reserve(d)
    \/ create_engine(d)
    \/ create_initialize(d)
    \/ create_destroy(d)
    \/ create_none(d)

\* A response leaves conn_write / conn_mwrite: it was sent, or the
\* connection is closed.
Flushed(c) ==
    /\ conn_write(c) \/ conn_mwrite(c)
    /\ conns'[c].state \notin {"conn_write", "conn_mwrite"}

\* The threads are scheduled fairly, the engines deliver their completions
\* and release their references, and the clients read their responses: a
\* socket registered for writing becomes writable and a response that is
\* tried again and again is sent.  Nothing is assumed of what the clients
\* send.
Fairness ==
    \A c \in Conns :
       /\ WF_vars(WorkerStep(c))
       /\ WF_vars(BucketThreadStep(c))
       /\ WF_vars(notify_io_complete(c))
       /\ WF_vars(release_cookie(c))
       /\ WF_vars(event_handler(c, "write"))
       /\ SF_vars(Flushed(c))

FairSpec == Spec /\ Fairness

\* libevent hands every ready event to its handler in each round of the
\* worker's loop: a socket that is writable again and again is served,
\* however busy the worker is with other connections.
Served == \A c \in Conns : SF_vars(event_handler(c, "write"))

ServedSpec == Spec /\ Fairness /\ Served

\* src/daemon/memcached.cc:2113 shutdown_server: the shutdown flag is set;
\* the listening thread stops at its next event (memcached.cc:1324-1331)
\* and accepts no more clients, the workers go on until their connections
\* are gone.
shutdown_server ==
    /\ Running
    /\ ~main.shutdown
    /\ main' = [main EXCEPT !.shutdown = TRUE]
    /\ UNCHANGED <<all_buckets, buckets_lock, ncreates, workload, coll, conns,
                   registry, assert_failed, use_after_free, bufvars,
                   connections_mutex>>

\* The server at work until somebody asks it to shut down.
DrainNext == Next \/ shutdown_server

DrainSpec == Init /\ [][DrainNext]_vars

\* The server with conn_parse_cmd in two steps, the execution of the
\* command and the return of the state function, so that what a bucket
\* thread does between the two is seen.
StepNext ==
    \E c \in Conns :
       \/ allocate_connection(c)
       \/ conn_new(c)
       \/ associate_initial_bucket(c)
       \/ associate_bucket_leave(c)
       \/ associate_bucket_scan(c)
       \/ associate_bucket_nobucket(c)
       \/ \E which \in {"read", "write"} : event_handler(c, which)
       \/ thread_libevent_process(c)
       \/ run_event_loop_return(c)
       \/ conn_new_cmd(c)
       \/ conn_waiting(c)
       \/ conn_read(c)
       \/ try_read_command(c)
       \/ conn_parse_cmd_returns(c)
       \/ conn_nread(c)
       \/ conn_write(c)
       \/ conn_mwrite(c)
       \/ conn_ship_log(c)
       \/ conn_closing(c)
       \/ conn_pending_close(c)
       \/ conn_immediate_close(c)
       \/ conn_create_bucket(c)
       \/ conn_delete_bucket(c)
       \/ notify_io_complete(c)
       \/ release_cookie(c)
       \/ signal_idle_clients(c)
       \/ delete_scan(c)
       \/ delete_self(c)
       \/ delete_wait(c)
       \/ delete_assert(c)
       \/ delete_destroy(c)
       \/ delete_cleanup(c)
       \/ bucket_thread_notify(c)
       \/ create_lock(c)
       \/ create_scan(c)
       \/ create_reserve(c)
       \/ create_engine(c)
       \/ create_initialize(c)
       \/ create_destroy(c)
       \/ create_none(c)

StepSpec == Init /\ [][StepNext]_vars

\* ------------------------------------------------ the budget of an event
\* One established connection whose client keeps an unlimited backlog of
\* pipelined requests; its requests-per-event budget is any of 1 .. MaxReqs
\* (settings.default_reqs_per_event or cookie_set_priority,
\* src/daemon/memcached.cc:1951).  It waits in conn_read for its first
\* read event.
Pipelining(k) ==
    [FreeConn EXCEPT !.state = "conn_read", !.bucketIndex = 0,
                     !.bucketEngine = 0, !.refcount = 1, !.ev = "read",
                     !.thread = TRUE,
                     !.maxReqsPerEvent = k, !.unlimited = TRUE]

EventInit ==
    /\ NoBuffers
    /\ Unconfigured
    /\ Serving
    /\ all_buckets = bind_b(initialize_buckets, 0)
    /\ buckets_lock = 0
    /\ ncreates = 0
    /\ workload = "admin"
    /\ \E k \in 1 .. MaxReqs :
         conns = [c \in Conns |-> IF c = 1 THEN Pipelining(k) ELSE FreeConn]
    /\ registry = {1}
    /\ assert_failed = FALSE
    /\ use_after_free = FALSE

EventNext ==
    \E c \in Conns :
       \/ \E which \in {"read", "write"} : event_handler(c, which)
       \/ thread_libevent_process(c)
       \/ run_event_loop_return(c)
       \/ conn_new_cmd(c)
       \/ conn_read(c)
       \/ conn_parse_cmd(c)
       \/ conn_mwrite(c)
       \/ conn_closing(c)
       \/ conn_immediate_close(c)
       \/ notify_io_complete(c)

EventSpec == EventInit /\ [][EventNext]_vars

\* ------------------------------------------- the buffer loan at work
BufFrame ==
    UNCHANGED <<all_buckets, buckets_lock, ncreates, workload, coll, shutvars, registry,
                assert_failed, use_after_free>>

\* src/daemon/connections.cc:134 run_event_loop, its first step: the worker
\* picks a connection and loans it buffers.
run_event_loop_loan(c) ==
    /\ Running
    /\ WorkerIdle
    /\ c \in registry
    /\ \E okr, okw \in BOOLEAN :
         LET w == conn_loan_buffers(BufWorld(c), okr, okw)
         IN /\ SetBufWorld(c, w)
            /\ SetConn(c, [conns[c] EXCEPT
                   !.pc = "run",
                   !.state = IF w.closing THEN "conn_closing" ELSE @])
    /\ BufFrame

\* What the state machine does to a buffer it holds: the cursor is at the
\* start (0) or beyond it, and bytes are left unconsumed or not.
Cursors(b) ==
    IF b.buf = 0 THEN {b}
    ELSE {[b EXCEPT !.curr = cu, !.bytes = by] : cu \in {0, 1},
                                                  by \in {0, 1}}

\* Connection::runStateMachinery as far as the buffers go: a connection
\* that is not closing reads and writes through its buffers and may become
\* a DCP stream; any connection may be held in conn_pending_close or have
\* its socket closed and be sent to conn_immediate_close.
runStateMachinery(c) ==
    /\ Running
    /\ conns[c].pc = "run"
    /\ \/ /\ conns[c].state = "conn_new_cmd"
          /\ \E r \in Cursors(net_buf[c].read),
                wr \in Cursors(net_buf[c].write), d \in BOOLEAN :
               /\ net_buf' = [net_buf EXCEPT ![c] =
                                 [read |-> r, write |-> wr]]
               /\ SetConn(c, [conns[c] EXCEPT !.pc = "ret",
                                 !.dcp = conns[c].dcp \/ d])
          /\ UNCHANGED <<thread_buf, heap, double_free>>
       \/ /\ conns[c].state # "conn_immediate_close"
          /\ SetConn(c, [conns[c] EXCEPT !.pc = "ret",
                                 !.state = "conn_pending_close"])
          /\ UNCHANGED bufvars
       \/ /\ conns[c].state # "conn_immediate_close"
          /\ SetConn(c, [conns[c] EXCEPT !.socketClosed = TRUE,
                                 !.state = "conn_immediate_close"])
          /\ UNCHANGED bufvars
    /\ BufFrame

\* src/daemon/connections.cc:140 run_event_loop, after the state machine:
\* conn_return_buffers (which asserts that a connection without a thread,
\* that is a destroyed one, has no buffer) and the release of a destroyed
\* connection.
run_event_loop_finish(c) ==
    /\ Running
    /\ conns[c].pc = "ret"
    /\ IF conns[c].state = "conn_destroyed"
       THEN /\ assert_failed' = (net_buf[c].read.buf # 0
                                   \/ net_buf[c].write.buf # 0)
            /\ release_connection(c)
            /\ UNCHANGED bufvars
       ELSE /\ SetBufWorld(c, conn_return_buffers(BufWorld(c),
                                                  conns[c].dcp))
            /\ SetConn(c, [conns[c] EXCEPT !.pc = "idle"])
            /\ UNCHANGED <<registry, assert_failed>>
    /\ UNCHANGED <<all_buckets, buckets_lock, ncreates, workload, coll, shutvars,
                   use_after_free>>

Established ==
    [FreeConn EXCEPT !.state = "conn_new_cmd", !.bucketIndex = 0,
                     !.bucketEngine = 0, !.refcount = 1, !.thread = TRUE,
                     !.maxReqsPerEvent = DefaultReqs, !.ev = "read",
                     !.pc = "idle"]

\* Every connection of the worker thread is set up and idle, and nothing
\* has been allocated yet.
BufInit ==
    /\ NoBuffers
    /\ Unconfigured
    /\ Serving
    /\ all_buckets = [initialize_buckets EXCEPT ![0].clients = MaxConns]
    /\ buckets_lock = 0
    /\ ncreates = 0
    /\ workload = "admin"
    /\ conns = [c \in Conns |-> Established]
    /\ registry = Conns
    /\ assert_failed = FALSE
    /\ use_after_free = FALSE

BufNext ==
    \E c \in Conns :
       \/ run_event_loop_loan(c)
       \/ runStateMachinery(c)
       \/ conn_immediate_close(c)
       \/ run_event_loop_finish(c)

BufSpec == BufInit /\ [][BufNext]_vars

\* src/daemon/memcached.cc:2447-2471 a bucket whose deletion a client that
\* has left since asked for: do_delete_bucket has set it to Destroying and
\* waits for its clients to go.  The last connection is a client of that
\* bucket, the others are clients of it or of slot 0.
Draining(bound) ==
    [i \in Slots |->
        LET n == Cardinality({c \in Conns : bound[c] = i})
        IN IF i = 0 THEN [initialize_buckets[0] EXCEPT !.clients = n]
           ELSE IF i = 1
           THEN [EmptyBucket EXCEPT !.state = "Destroying",
                                    !.name = "default", !.engine = "live",
                                    !.handlers = TRUE, !.clients = n]
           ELSE EmptyBucket]

CloseInit ==
    /\ NoBuffers
    /\ Unconfigured
    /\ Serving
    /\ buckets_lock = 0
    /\ ncreates = 0
    /\ workload = "admin"
    /\ \E bound \in [Conns -> {0, 1}] :
         /\ bound[MaxConns] = 1
         /\ \A c \in Conns : c < MaxConns - 1 => bound[c] = 0
         /\ all_buckets = Draining(bound)
         /\ conns = [c \in Conns |-> bind_c(Established, bound[c])]
    /\ registry = Conns
    /\ assert_failed = FALSE
    /\ use_after_free = FALSE

CloseSpec == CloseInit /\ [][BufNext]_vars

\* ------------------------------------------------------ the bucket table
\* The first n connections are established, their clients create and
\* delete buckets; no bucket exists yet.
Tenants(n, w) ==
    /\ NoBuffers
    /\ Unconfigured
    /\ Serving
    /\ buckets_lock = 0
    /\ ncreates = 0
    /\ workload = w
    /\ all_buckets = [initialize_buckets EXCEPT ![0].clients = n]
    /\ conns = [c \in Conns |-> IF c <= n THEN Established ELSE FreeConn]
    /\ registry = 1 .. n
    /\ assert_failed = FALSE
    /\ use_after_free = FALSE

\* One client: its requests follow one another.
TableInit == Tenants(1, "tenant")

\* Every connection has a client: their requests run at the same time.
RaceInit == Tenants(MaxConns, "race")

TableNext ==
    \E c \in Conns :
       \/ \E which \in {"read", "write"} : event_handler(c, which)
       \/ thread_libevent_process(c)
       \/ run_event_loop_return(c)
       \/ conn_new_cmd(c)
       \/ conn_waiting(c)
       \/ conn_read(c)
       \/ conn_parse_cmd(c)
       \/ conn_mwrite(c)
       \/ conn_closing(c)
       \/ conn_immediate_close(c)
       \/ conn_create_bucket(c)
       \/ conn_delete_bucket(c)
       \/ delete_scan(c)
       \/ delete_self(c)
       \/ delete_wait(c)
       \/ delete_assert(c)
       \/ delete_destroy(c)
       \/ delete_cleanup(c)
       \/ bucket_thread_notify(c)
       \/ create_lock(c)
       \/ create_scan(c)
       \/ create_reserve(c)
       \/ create_engine(c)
       \/ create_initialize(c)
       \/ create_destroy(c)
       \/ create_none(c)

TableSpec == TableInit /\ [][TableNext]_vars

RaceSpec == RaceInit /\ [][TableNext]_vars

\* ------------------------------------------------------------- shutdown
\* The main thread as a holder of connections.mutex.
MainThread == -1

\* A DCP connection whose cookie the engine has reserved.
Streaming ==
    [Established EXCEPT !.state = "conn_ship_log", !.dcp = TRUE,
                        !.refcount = 2, !.ev = "rw"]

\* src/daemon/memcached.cc:1085 a connection conn_pending_close keeps
\* because the engine still holds its cookie: the socket is closed.
PendingClose ==
    [Streaming EXCEPT !.state = "conn_pending_close", !.ev = "none",
                      !.socketClosed = TRUE]

\* src/daemon/memcached.cc:3103 after threads_shutdown: the workers have
\* stopped, the main thread is about to call close_all_connections; the
\* registry holds the connections the clients left open, and a bucket
\* may exist.
ShutdownInit ==
    /\ NoBuffers
    /\ Unconfigured
    /\ connections_mutex = 0
    /\ main = [pc |-> "close_all", cursor |-> 0, done |-> FALSE,
               shutdown |-> TRUE]
    /\ buckets_lock = 0
    /\ ncreates = 0
    /\ workload = "admin"
    /\ \E n \in 0 .. MaxConns :
         /\ registry = 1 .. n
         /\ conns \in [Conns -> {FreeConn, Established, Streaming,
                                  PendingClose}]
         /\ \A c \in Conns : conns[c] = FreeConn <=> c > n
         /\ all_buckets \in
              { [initialize_buckets EXCEPT ![0].clients = n],
                [initialize_buckets EXCEPT
                   ![0].clients = n,
                   ![1] = [@ EXCEPT !.state = "Ready", !.name = "default",
                                    !.engine = "live"]] }
    /\ assert_failed = FALSE
    /\ use_after_free = FALSE

MainOnly ==
    UNCHANGED <<bufvars, ncreates, workload, coll, all_buckets, buckets_lock,
                registry, assert_failed, use_after_free>>

\* src/daemon/connections.cc:97 close_all_connections takes
\* connections.mutex for its first loop.
close_all_lock ==
    /\ main.pc = "close_all"
    /\ connections_mutex = 0
    /\ connections_mutex' = MainThread
    /\ main' = [main EXCEPT !.pc = "close_visit", !.cursor = 1]
    /\ UNCHANGED conns
    /\ MainOnly

\* src/daemon/connections.cc:105 the connection gets the ON_DISCONNECT
\* callbacks of the engines if its cookie is reserved.
close_all_notifies(r) == r.refcount > 1

\* src/daemon/connections.cc:98-106 one connection of the first loop: its
\* socket is closed, and perform_callbacks(ON_DISCONNECT) is called for it
\* if an engine holds its cookie.
close_all_visit ==
    /\ main.pc = "close_visit"
    /\ main.cursor \in registry
    /\ LET r == conns[main.cursor] IN
         SetConn(main.cursor,
                 [(IF close_all_notifies(r) THEN perform_callbacks(r) ELSE r)
                    EXCEPT !.socketClosed = TRUE])
    /\ main' = [main EXCEPT !.cursor = @ + 1]
    /\ UNCHANGED connections_mutex
    /\ MainOnly

\* src/daemon/connections.cc:108 the end of the first loop releases
\* connections.mutex.
close_all_unlock ==
    /\ main.pc = "close_visit"
    /\ main.cursor \notin registry
    /\ connections_mutex' = 0
    /\ main' = [main EXCEPT !.pc = "close_wait", !.cursor = 0]
    /\ UNCHANGED conns
    /\ MainOnly

\* src/daemon/connections.cc:114-118 a round of the second loop starts:
\* done = true, connections.mutex taken.
close_wait_lock ==
    /\ main.pc = "close_wait"
    /\ connections_mutex = 0
    /\ connections_mutex' = MainThread
    /\ main' = [main EXCEPT !.pc = "wait_visit", !.cursor = 1, !.done = TRUE]
    /\ UNCHANGED conns
    /\ MainOnly

\* src/daemon/connections.cc:119-123 one connection of the second loop:
\* while its refcount is above 1 the loop sets done = false and looks
\* again.
close_wait_visit ==
    /\ main.pc = "wait_visit"
    /\ main.cursor \in registry
    /\ main' = IF conns[main.cursor].refcount > 1
               THEN [main EXCEPT !.done = FALSE]
               ELSE [main EXCEPT !.cursor = @ + 1]
    /\ UNCHANGED <<connections_mutex, conns>>
    /\ MainOnly

\* src/daemon/connections.cc:124-130 the round ends: the mutex is
\* released; another round follows the usleep unless done.
close_wait_unlock ==
    /\ main.pc = "wait_visit"
    /\ main.cursor \notin registry
    /\ connections_mutex' = 0
    /\ main' = [main EXCEPT !.pc = IF main.done THEN "cleanup_buckets"
                                   ELSE "close_wait",
                            !.cursor = 0]
    /\ UNCHANGED conns
    /\ MainOnly

\* src/daemon/memcached.cc:2595 cleanup_buckets, one slot: the engine of a
\* Ready bucket is destroyed.
cleanup_buckets ==
    /\ main.pc = "cleanup_buckets"
    /\ main.cursor < MaxBuckets
    /\ all_buckets[main.cursor].state \in {"Ready", "None"}
    /\ all_buckets' = IF all_buckets[main.cursor].state = "Ready"
                       THEN engine_destroy(all_buckets, main.cursor)
                       ELSE all_buckets
    /\ main' = [main EXCEPT !.cursor = @ + 1]
    /\ UNCHANGED <<bufvars, ncreates, workload, coll, conns, connections_mutex,
                   buckets_lock, registry, assert_failed, use_after_free>>

\* src/daemon/connections.cc:83 destroy_connections (memcached.cc:3121):
\* under connections.mutex every connection object is deleted and the
\* registry cleared.
destroy_connections ==
    /\ main.pc = "cleanup_buckets"
    /\ main.cursor >= MaxBuckets
    /\ connections_mutex = 0
    /\ conns' = [c \in Conns |-> FreeConn]
    /\ registry' = {}
    /\ main' = [main EXCEPT !.pc = "exit", !.cursor = 0]
    /\ UNCHANGED <<bufvars, ncreates, workload, coll, all_buckets,
                   connections_mutex, buckets_lock, assert_failed,
                   use_after_free>>

\* The main thread's half of main() after the event loop, and the engines
\* that give back the cookies they reserved.
ShutdownNext ==
    \/ close_all_lock
    \/ close_all_visit
    \/ close_all_unlock
    \/ close_wait_lock
    \/ close_wait_visit
    \/ close_wait_unlock
    \/ cleanup_buckets
    \/ destroy_connections
    \/ \E c \in Conns : release_cookie(c)

ShutdownSpec == ShutdownInit /\ [][ShutdownNext]_vars

\* ============================================================ collections
\* src/daemon/collections.cc: the Collections object of a bucket and the
\* configuration call that fills it.

\* Most collections one configuration string names.
MaxSetNames == 2

\* The collection names the configuration strings use: the names of
\* collections_test.cc, a name of the greatest length and one beyond it.
CollectionNames ==
    {"beer", "bre:ws", "bre$ws", "", fill(CollectionNameMaxLength),
     fill(CollectionNameMaxLength + 1)}

\* The values of collection_separator the configuration strings use.
Separators == {":", "$"}

\* The values of collection_mode the configuration strings use.
Modes == {CollectionModeStrict, CollectionModeOff, "foo"}

\* src/daemon/collections.cc:98-122 what parse_config finds in a configuration
\* string: whether it parses, and for each of the three keys whether it is
\* there and its value.  collection_set is the set addCollectionsToCollectionSet
\* splits the value into (collections.cc:217-228): it is never empty, a
\* value with nothing between two commas or after the last one gives the
\* empty name.
Absent == "-"

Configs ==
    { cfg \in [parses : BOOLEAN,
               mode : Modes \cup {Absent},
               separator : Separators \cup {Absent},
               set_found : BOOLEAN,
               set : {n \in SUBSET CollectionNames :
                        Cardinality(n) <= MaxSetNames}] :
        cfg.set_found <=> cfg.set # {} }

\* src/daemon/collections.h:104
doesStringContainString(string, searchString) ==
    \E i \in 1 .. (Len(string) - Len(searchString) + 1) :
        SubSeq(string, i, i + Len(searchString) - 1) = searchString

\* src/daemon/collections.cc:51-66 TRUE when the collection may be added,
\* FALSE when validateAddCollection throws invalid_argument.
validateAddCollection(obj, testSeparator, collection) ==
    /\ collection # ""
    /\ Len(collection) <= CollectionNameMaxLength
    /\ ~doesStringContainString(collection, testSeparator)
    /\ collection \notin obj.collections

Thrown(obj, what) == [obj |-> obj, thrown |-> what]

\* src/daemon/collections.cc:91-197.  obj is the object before the call;
\* added is the part of the collection set that collections.insert took
\* before an insert threw (all of the set when none did: the set's
\* iteration order is unspecified, so any part may come first).  The result
\* is the object after the call and the exception that left it.  The
\* validation addCollection repeats (collections.cc:69) uses the separator
\* and the names the first validation used, so it passes.
initFromBucketConfig(obj, cfg, added) ==
    LET enabled == cfg.mode = CollectionModeStrict
        separatorForValidation ==
            IF cfg.separator # Absent THEN cfg.separator ELSE obj.separator
        assigned == [enabled |-> enabled,
                     separator |-> separatorForValidation,
                     collections |-> obj.collections \cup added]
    IN  IF ~cfg.parses
          THEN Thrown(obj, "invalid_argument")
        ELSE IF cfg.mode \notin {Absent, CollectionModeStrict,
                                 CollectionModeOff}
          THEN Thrown(obj, "invalid_argument")
        ELSE IF /\ cfg.set_found
                /\ Cardinality(obj.collections) + Cardinality(cfg.set)
                     > CollectionsMaxSetSize
          THEN Thrown(obj, "invalid_argument")
        ELSE IF /\ cfg.set_found
                /\ \E collection \in cfg.set :
                     ~validateAddCollection(obj, separatorForValidation,
                                            collection)
          THEN Thrown(obj, "invalid_argument")
        ELSE IF cfg.set_found /\ added # cfg.set
          THEN Thrown(assigned, "logic_error")
        ELSE Thrown(assigned, "none")

\* A caller configures the object; the allocation an insert needs may fail.
init_from_bucket_config ==
    /\ \E cfg \in Configs : \E added \in SUBSET cfg.set :
         coll' = initFromBucketConfig(coll.obj, cfg, added)
    /\ UNCHANGED <<all_buckets, buckets_lock, ncreates, workload, conns,
                   registry, assert_failed, use_after_free, bufvars,
                   shutvars>>

\* src/daemon/collections.cc:68-73 addCollection: the name is validated with
\* the object's separator and inserted; inserted is FALSE when the
\* allocation of the insert fails.
addCollection(obj, collection, inserted) ==
    IF ~validateAddCollection(obj, obj.separator, collection)
      THEN Thrown(obj, "invalid_argument")
    ELSE IF ~inserted
      THEN Thrown(obj, "bad_alloc")
    ELSE Thrown([obj EXCEPT !.collections = @ \cup {collection}], "none")

\* A caller adds one collection.
add_collection ==
    /\ \E collection \in CollectionNames : \E inserted \in BOOLEAN :
         coll' = addCollection(coll.obj, collection, inserted)
    /\ UNCHANGED <<all_buckets, buckets_lock, ncreates, workload, conns,
                   registry, assert_failed, use_after_free, bufvars,
                   shutvars>>

\* A bucket's Collections object on its own: no connection, no client.
CollectionsInit ==
    /\ NoBuffers
    /\ Unconfigured
    /\ Serving
    /\ all_buckets = initialize_buckets
    /\ buckets_lock = 0
    /\ ncreates = 0
    /\ workload = "config"
    /\ conns = [c \in Conns |-> FreeConn]
    /\ registry = {}
    /\ assert_failed = FALSE
    /\ use_after_free = FALSE

CollectionsNext == init_from_bucket_config \/ add_collection

CollectionsSpec == CollectionsInit /\ [][CollectionsNext]_vars

\* =================================================================== claims
\* The connections of the registry that carry bucket index idx.
Associated(idx) == {c \in registry : conns[c].bucketIndex = idx}

\* No operation is under way: the worker is in its event loop and no
\* create-bucket or delete-bucket thread runs.
Quiescent == WorkerIdle /\ \A d \in Conns : conns[d].tpc = "none"

\* C1: whenever no operation is under way, the client count of every slot
\* (slot 0 included) equals the number of registered connections whose
\* bucket index is that slot, and it is never below zero.
C1_ClientCountMatchesRegistry ==
    /\ Quiescent =>
          \A i \in Slots :
             all_buckets[i].clients = Cardinality(Associated(i))
    /\ \A i \in Slots : all_buckets[i].clients >= 0

\* A delete-bucket thread that got past the scan: it marked its bucket
\* Destroying and has not yet set it to None.
DeleteStages == {"del_self", "del_wait", "del_assert", "del_destroy",
                 "del_cleanup"}

Deleting(d, i) == conns[d].tpc \in DeleteStages /\ conns[d].tidx = i

\* C2: do_delete_bucket invokes the engine's destroy only in a state where
\* the bucket's client count is 0 and no registered connection carries the
\* slot as its bucket index; the check of assert_no_associations never fails.
C2_DestroyOnlyWhenDrained ==
    /\ ~assert_failed
    /\ \A d \in Conns :
          conns[d].tpc = "del_destroy" =>
             /\ all_buckets[conns[d].tidx].clients = 0
             /\ Associated(conns[d].tidx) = {}

\* A delete is about to destroy the engine after another connection, which
\* is still in the registry, was closed.
C2_Witness ==
    \E d \in Conns, c \in registry :
       /\ c # d
       /\ conns[d].tpc = "del_destroy"
       /\ conns[c].state = "conn_destroyed"

\* C3: a step that increments a slot's client count, or binds a connection
\* to a slot, is taken with the slot Ready; a slot that is Destroying never
\* gains a client.
C3_BindOnlyWhenReady ==
    [][\A i \in Slots :
          /\ all_buckets'[i].clients > all_buckets[i].clients
                => all_buckets[i].state = "Ready"
          /\ \A c \in Conns :
                (conns'[c].bucketIndex = i /\ conns[c].bucketIndex # i)
                   => all_buckets[i].state = "Ready"]_vars

\* A select-bucket scan has passed the slot that carries the requested
\* name, which a delete is draining, and did not bind to it.
C3_Witness ==
    \E c, d \in Conns :
       /\ conns[c].pc = "assoc_scan"
       /\ conns[c].ii = 2
       /\ conns[c].name = all_buckets[1].name
       /\ all_buckets[1].state = "Destroying"
       /\ Deleting(d, 1)

\* C4: once a delete-bucket request has marked its bucket Destroying, the
\* bucket's connections are closed, the delete completes and the slot is
\* None again.
C4_DeleteCompletes ==
    \A i \in 1 .. (MaxBuckets - 1) :
       (\E d \in Conns : Deleting(d, i)) ~> (all_buckets[i].state = "None")

\* C5: of the delete-bucket requests for one bucket at most one is past
\* the scan at any time (the one that moved the bucket Ready -> Destroying);
\* a request that found the bucket not Ready carries ENGINE_KEY_EEXISTS
\* straight to its notification, and no engine is destroyed twice.
C5_OneDeleteProceeds ==
    /\ \A i \in Slots :
          /\ Cardinality({d \in Conns : Deleting(d, i)}) <= 1
          /\ all_buckets[i].ndestroy <= 1
          /\ (\E d \in Conns : Deleting(d, i)) =>
                all_buckets[i].state = "Destroying"
    /\ \A d \in Conns :
          /\ conns[d].tpc \in DeleteStages => conns[d].tret = "SUCCESS"
          /\ (conns[d].state = "conn_delete_bucket"
                /\ conns[d].tret = "KEY_EEXISTS") => conns[d].tpc = "notify"

\* One delete waits for its bucket to drain while a second delete of the
\* same bucket has been refused with ENGINE_KEY_EEXISTS.
C5_Witness ==
    \E d, e \in Conns :
       /\ d # e
       /\ Deleting(d, 1)
       /\ conns[e].state = "conn_delete_bucket"
       /\ conns[e].tpc = "notify"
       /\ conns[e].tret = "KEY_EEXISTS"
       /\ conns[e].name = conns[d].name

\* C6: a connection whose engine operation is outstanding (ewouldblock set,
\* the completion not yet delivered) is not in immediate_close, destroyed
\* or freed, whatever its reference count; no completion is delivered to a
\* freed connection.
C6_HeldUntilCompletion ==
    /\ ~use_after_free
    /\ \A c \in Conns :
          (conns[c].aio = "pending" /\ conns[c].tpc = "none") =>
             conns[c].state \notin
                {"conn_immediate_close", "conn_destroyed", "free"}

YieldedInNewCmd(c, st) ==
    /\ conns[c].pc = "idle"
    /\ conns[c].state = "conn_new_cmd"
    /\ conns[c].started = st

\* C10 as stated: with a budget of K and an unlimited backlog, an
\* invocation that starts in conn_read or resumes in conn_new_cmd has
\* executed exactly K commands when conn_new_cmd yields.
C10_ExactlyBudget ==
    \A c \in Conns :
       (YieldedInNewCmd(c, "conn_read") \/ YieldedInNewCmd(c, "conn_new_cmd"))
          => conns[c].ncmds = conns[c].maxReqsPerEvent

\* C10, amended: an invocation that resumes in conn_new_cmd has executed
\* exactly K commands when conn_new_cmd yields, one that starts in
\* conn_read exactly K + 1 (its first command runs before conn_new_cmd
\* first counts).
C10_BudgetPerStart ==
    \A c \in Conns :
       /\ YieldedInNewCmd(c, "conn_new_cmd")
             => conns[c].ncmds = conns[c].maxReqsPerEvent
       /\ YieldedInNewCmd(c, "conn_read")
             => conns[c].ncmds = conns[c].maxReqsPerEvent + 1

\* A connection with the largest budget yielded in an invocation that had
\* resumed in conn_new_cmd.
C10_Witness ==
    \E c \in Conns :
       /\ YieldedInNewCmd(c, "conn_new_cmd")
       /\ conns[c].maxReqsPerEvent = MaxReqs
       /\ conns[c].ncmds = MaxReqs

\* ---- buffers
BufSlots == {<<0, "read">>, <<0, "write">>} \cup (Conns \X {"read", "write"})

BufAt(sl) ==
    IF sl[1] = 0 THEN thread_buf[sl[2]].buf ELSE net_buf[sl[1]][sl[2]].buf

\* C8: each allocated buffer has at most one owner: no buffer is at once in
\* a spare slot of the thread and held by a connection, or held by two
\* connections (or twice by one).
C8_SingleOwner ==
    \A s1, s2 \in BufSlots :
       (s1 # s2 /\ BufAt(s1) # 0) => BufAt(s1) # BufAt(s2)

\* The thread has a spare read buffer that a connection returned, while
\* one connection holds a read buffer and another a write buffer.
C8_Witness ==
    /\ thread_buf.read.buf # 0
    /\ \E c, d \in Conns :
         c # d /\ net_buf[c].read.buf # 0 /\ net_buf[d].write.buf # 0

Drained(b) == b.buf # 0 /\ b.curr = 0 /\ b.bytes = 0

Partial(b) == b.buf # 0 /\ ~(b.curr = 0 /\ b.bytes = 0)

GoesIdle(c) ==
    /\ conns[c].pc = "ret"
    /\ conns[c].state # "conn_destroyed"
    /\ conns'[c].pc = "idle"

\* What going idle does to the buffer of kind k of connection c, the
\* spare slot holding sp before.
ReturnedRight(c, k, sp) ==
    LET b == net_buf[c][k]
    IN /\ Drained(b) /\ sp.buf = 0 =>
            /\ thread_buf'[k].buf = b.buf
            /\ net_buf'[c][k].buf = 0
            /\ b.buf \in heap'
       /\ Drained(b) /\ sp.buf # 0 =>
            /\ thread_buf'[k] = sp
            /\ net_buf'[c][k].buf = 0
            /\ b.buf \in heap /\ b.buf \notin heap'
       /\ Partial(b) => net_buf'[c][k] = b /\ b.buf \in heap'

\* C9: when a connection that is not a stream goes idle, a drained buffer
\* moves to the empty spare slot or else is freed, once, and a partial
\* buffer stays; the allocated buffers are exactly the owned ones (no leak,
\* no dangling owner), nothing is freed twice, and a destroyed connection
\* holds no buffer.
C9_ReturnOnIdle ==
    /\ [][\A c \in Conns : GoesIdle(c) /\ ~conns[c].dcp =>
            /\ ReturnedRight(c, "read", thread_buf.read)
            /\ ReturnedRight(c, "write", thread_buf.write)]_vars
    /\ [](/\ heap = {BufAt(sl) : sl \in BufSlots} \ {0}
          /\ ~double_free
          /\ \A c \in Conns :
                conns[c].state \in {"conn_destroyed", "free"} =>
                   net_buf[c].read.buf = 0 /\ net_buf[c].write.buf = 0)

\* A connection is about to go idle with a drained read buffer while the
\* spare slot is taken, and with a partial write buffer.
C9_Witness ==
    \E c \in Conns :
       /\ conns[c].pc = "ret" /\ conns[c].state = "conn_new_cmd"
       /\ ~conns[c].dcp
       /\ Drained(net_buf[c].read) /\ thread_buf.read.buf # 0
       /\ Partial(net_buf[c].write)

\* ---- create-bucket
CreateStages ==
    {"cr_lock", "cr_scan", "cr_engine", "cr_init", "cr_destroy", "cr_none"}

\* The step in which the do_create_bucket of d's request returns.
CreateReturns(d) ==
    /\ conns[d].tpc \in CreateStages
    /\ conns'[d].tpc = "notify"

\* C11: whenever do_create_bucket returns success, the slot it reserved
\* carries the name, is Ready and has no client: a create never reports
\* success with the bucket absent or not Ready.
C11_SuccessMeansReady ==
    [][\A d \in Conns :
          CreateReturns(d) /\ conns'[d].tret = "SUCCESS" =>
             LET b == all_buckets'[conns'[d].tidx]
             IN b.name = conns[d].name /\ b.state = "Ready"
                /\ b.clients = 0]_vars

\* The do_create_bucket of d's request returns a failure after it reserved
\* a slot: the top-keys allocation failed at the reservation, the engine was
\* not built, or its initialize failed.
FailsAfterReserving(d) ==
    /\ CreateReturns(d)
    /\ \/ conns[d].tpc = "cr_scan" /\ all_buckets' # all_buckets
       \/ conns[d].tpc \in {"cr_engine", "cr_none"}

\* C12: whenever do_create_bucket fails after reserving a slot, that slot
\* ends None with its name cleared.
C12_FailureFreesSlot ==
    [][\A d \in Conns :
          FailsAfterReserving(d) =>
             LET b == all_buckets'[conns'[d].tidx]
             IN b.state = "None" /\ b.name = ""]_vars

\* The step in which do_create_bucket, its scan over, decides: the name
\* exists, the table is full, or a slot is reserved.
Verdict(d) ==
    /\ conns[d].tpc = "cr_scan"
    /\ conns'[d].tpc # "cr_scan"

NameInUse(nm) ==
    \E i \in Slots : all_buckets[i].state # "None" /\ all_buckets[i].name = nm

\* C13: a create-bucket whose name is the name of a slot that is not None
\* (whatever the state of that slot) fails with KEY_EEXISTS and leaves the
\* table as it is.
C13_ExistingNameRefused ==
    [][\A d \in Conns :
          Verdict(d) /\ NameInUse(conns[d].name) =>
             /\ conns'[d].tret = "KEY_EEXISTS"
             /\ conns'[d].tpc = "notify"
             /\ all_buckets' = all_buckets]_vars

\* A create was refused with KEY_EEXISTS because of a slot that is being
\* created or destroyed.
C13_Witness ==
    \E d \in Conns, i \in Slots :
       /\ conns[d].state = "conn_create_bucket"
       /\ conns[d].tpc = "notify" /\ conns[d].tret = "KEY_EEXISTS"
       /\ all_buckets[i].name = conns[d].name
       /\ all_buckets[i].state \in {"Creating", "Initializing", "Destroying"}

\* The create of d's request holds a slot it reserved.
HoldsReserved(d) ==
    conns[d].tpc \in {"cr_engine", "cr_init", "cr_destroy", "cr_none"}

\* C14: whatever the interleaving of creates and deletes, no two slots that
\* are not None carry the same name and no two creates in progress hold the
\* same reserved slot.
C14_NamesAndSlotsUnique ==
    /\ \A i, j \in Slots :
          (i # j /\ all_buckets[i].state # "None"
                 /\ all_buckets[j].state # "None")
             => all_buckets[i].name # all_buckets[j].name
    /\ \A d, e \in Conns :
          (d # e /\ HoldsReserved(d) /\ HoldsReserved(e))
             => conns[d].tidx # conns[e].tidx

\* Two creates are in progress at once, each with a slot of its own.
C14_Witness ==
    \E d, e \in Conns :
       /\ d # e /\ HoldsReserved(d) /\ HoldsReserved(e)
       /\ all_buckets[conns[d].tidx].name = conns[d].name
       /\ all_buckets[conns[e].tidx].name = conns[e].name

FreeSlots == {i \in Slots : all_buckets[i].state = "None"}

LowestFree == CHOOSE m \in FreeSlots : \A i \in FreeSlots : m <= i

CountMoves(i, k) ==
    /\ all_buckets'[i] =
          [all_buckets[i] EXCEPT !.clients = all_buckets[i].clients + k,
                                 !.cond = all_buckets'[i].cond]
    /\ \A j \in Slots \ {i} : all_buckets'[j] = all_buckets[j]

\* C16: associate_bucket first takes the connection off its previous
\* bucket, which loses exactly one client; a slot is bound iff it is Ready
\* and carries the name, and then its count grows by exactly one and the
\* connection carries its index and engine; when no slot matched the
\* connection is not closed but ends on slot 0 with the no-bucket engine,
\* counted there.
C16_SelectBucket ==
    [][\A c \in Conns :
          LET r == conns[c]
              n == conns'[c]
          IN /\ r.pc = "assoc_dis" /\ n.pc # "assoc_dis" =>
                  /\ CountMoves(r.bucketIndex, -1)
                  /\ n.pc = "assoc_scan"
             /\ r.pc = "assoc_scan" /\ n # r /\ r.ii < MaxBuckets =>
                  IF all_buckets[r.ii].state = "Ready"
                     /\ all_buckets[r.ii].name = r.name
                  THEN /\ CountMoves(r.ii, 1)
                       /\ n.bucketIndex = r.ii /\ n.bucketEngine = r.ii
                       /\ n.pc # "assoc_scan"
                  ELSE /\ all_buckets' = all_buckets
                       /\ n.pc = "assoc_scan"
                       /\ n.bucketIndex = 0
             /\ r.pc = "assoc_scan" /\ n # r /\ r.ii >= MaxBuckets =>
                  /\ CountMoves(0, 1)
                  /\ n.bucketIndex = 0 /\ n.bucketEngine = 0
                  /\ n.state \notin {"conn_closing", "conn_immediate_close",
                                     "conn_destroyed", "free"}
                  /\ c \in registry']_vars

\* A select-bucket command found no Ready bucket of its name, though a
\* bucket exists: the connection has left its bucket and is about to be
\* put on slot 0.
C16_Witness ==
    \E c \in Conns :
       /\ conns[c].pc = "assoc_scan" /\ conns[c].ii >= MaxBuckets
       /\ conns[c].state = "conn_parse_cmd"
       /\ \E i \in Slots \ {0} : all_buckets[i].state = "Ready"

\* ---- create / delete round trip
\* After a create that reported success its name is listed.
ListedAfterCreate ==
    [][\A d \in Conns :
          CreateReturns(d) /\ conns'[d].tret = "SUCCESS" =>
             \E i \in Slots : /\ all_buckets'[i].state # "None"
                              /\ all_buckets'[i].name = conns[d].name]_vars

\* After a delete that succeeded no slot carries the name and the slot of
\* the bucket is None.
GoneAfterDelete ==
    [][\A d \in Conns :
          conns[d].tpc = "del_cleanup" /\ conns'[d].tpc = "notify" =>
             /\ conns'[d].tret = "SUCCESS"
             /\ all_buckets'[conns[d].tidx].state = "None"
             /\ \A i \in Slots : all_buckets'[i].name # conns[d].name]_vars

\* A create of a name that no slot carries is not refused as existing.
CreatableAgain ==
    [][\A d \in Conns :
          Verdict(d) /\ ~NameInUse(conns[d].name) =>
             conns'[d].tret # "KEY_EEXISTS"]_vars

\* C17: round trip: a name is listed after its create succeeded, it is
\* gone, its slot None, after its delete succeeded, and it can then be
\* created again, round after round.
C17_RoundTrip == ListedAfterCreate /\ GoneAfterDelete /\ CreatableAgain

\* ---- the engine of a connection
\* C18: whenever no operation is under way, every registered connection has
\* an engine, the engine of the slot its bucket index names, and that slot
\* is Ready (a Destroying slot has a delete under way); and no connection's
\* index or engine refers to a slot that is None.
C18_EngineOfItsBucket ==
    /\ Quiescent =>
          \A c \in registry :
             LET r == conns[c]
             IN /\ r.bucketEngine # NullEngine
                /\ r.bucketIndex \in Slots
                /\ r.bucketEngine = r.bucketIndex
                /\ all_buckets[r.bucketIndex].engine = "live"
                /\ all_buckets[r.bucketIndex].state = "Ready"
    /\ \A i \in Slots :
          all_buckets[i].state = "None" =>
             \A c \in registry :
                conns[c].bucketIndex # i /\ conns[c].bucketEngine # i

\* ---- would-block
\* The execution of a command of r returned would-block and its completion
\* has not been notified.
Parked(r) ==
    /\ r.ewouldblock /\ r.aio = "pending" /\ ~r.dcp
    /\ r.state \in {"conn_parse_cmd", "conn_nread", "conn_create_bucket",
                     "conn_delete_bucket"}

\* C19: a connection whose command returned would-block has yielded with
\* ewouldblock set; until the completion is notified it makes no state
\* transition and executes nothing; the notification puts it on the
\* pending-io list of its thread in the same state, and only a notified
\* connection goes on to write the response.
C19_ParkedUntilNotified ==
    /\ [](\A c \in registry : Parked(conns[c]) => conns[c].pc = "idle")
    /\ [][\A c \in registry :
            LET r == conns[c]
                n == conns'[c]
            IN /\ Parked(r) /\ n.aio = "pending" =>
                    /\ n.state = r.state /\ n.ewouldblock
                    /\ n.pc = "idle" /\ n.ncmds = r.ncmds
               /\ Parked(r) /\ n.aio # "pending" =>
                    /\ n.aio = "done" /\ n.pio
                    /\ n.state = r.state /\ n.pc = "idle"
               /\ (r.ewouldblock /\ ~r.dcp
                     /\ n.state \in {"conn_mwrite", "conn_write"}
                     /\ r.state \notin {"conn_mwrite", "conn_write"}) =>
                    r.aio = "done"]_vars

\* The completion of a command parked in conn_nread has been notified: the
\* connection is on the pending-io list, still in conn_nread.
C19_Witness ==
    \E c \in registry :
       /\ conns[c].ewouldblock /\ conns[c].aio = "done" /\ conns[c].pio
       /\ conns[c].state = "conn_nread" /\ conns[c].pc = "idle"

\* ---- delete of a bucket that does not exist
NoSlotCarries(nm) == \A i \in DOMAIN all_buckets : all_buckets[i].name # nm

\* C20: a delete-bucket whose name no slot carries changes no slot and no
\* other connection while it scans and never reaches the stages that make
\* connections leave a bucket; it reports ENGINE_KEY_ENOENT, and the
\* requester answers it and stays open.
C20_DeleteMissingBucket ==
    [][\A d \in registry :
         LET r == conns[d]
             n == conns'[d]
         IN /\ (r.tpc = "del_scan" /\ NoSlotCarries(r.name)
                  /\ (n.tpc # r.tpc \/ n.tii # r.tii)) =>
                 /\ all_buckets' = all_buckets
                 /\ n.tret = "KEY_ENOENT"
                 /\ n.tpc \in {"del_scan", "notify"}
                 /\ n.state = r.state
                 /\ \A c \in registry \ {d} : conns'[c] = conns[c]
            /\ (r.state = "conn_delete_bucket" /\ r.tpc = "notify"
                  /\ r.tret = "KEY_ENOENT" /\ n.tpc = "none") =>
                 /\ n.aiostat = "KEY_ENOENT" /\ n.state = r.state
                 /\ all_buckets' = all_buckets
            /\ (r.state = "conn_delete_bucket" /\ r.aio = "done"
                  /\ r.aiostat = "KEY_ENOENT" /\ n.state # r.state) =>
                 /\ n.state = "conn_mwrite"
                 /\ all_buckets' = all_buckets]_vars

\* A delete of a name no slot carries has reported ENGINE_KEY_ENOENT while
\* another bucket is Ready.
C20_Witness ==
    \E d \in registry :
       /\ conns[d].state = "conn_delete_bucket" /\ conns[d].aio = "done"
       /\ conns[d].aiostat = "KEY_ENOENT" /\ NoSlotCarries(conns[d].name)
       /\ \E i \in DOMAIN all_buckets :
             i > 0 /\ all_buckets[i].state = "Ready"

\* ---- a dying bucket cuts the connection's i/o short
IoStates == {"conn_waiting", "conn_read", "conn_nread", "conn_write",
             "conn_mwrite", "conn_new_cmd", "conn_ship_log"}

\* C21: in every state that does socket or engine i/o (waiting, read, nread,
\* write, mwrite, new_cmd, ship_log) a step of the state machine taken
\* while the connection's bucket is not Ready takes the connection to
\* conn_closing and does nothing else.
C21_DyingBucketCloses ==
    [][\A c \in registry :
         LET r == conns[c]
             n == conns'[c]
         IN (r.pc = "run" /\ r.state \in IoStates /\ is_bucket_dying(r)
               /\ n # r) =>
              n = [r EXCEPT !.state = "conn_closing"]]_vars

\* ---- the life cycle of a slot
UserSlots == DOMAIN all_buckets \ {0}

\* Every change of state of a slot i >= 1 is one of the pairs in edges.
FollowsEdges(edges) ==
    \A i \in UserSlots :
       all_buckets'[i].state # all_buckets[i].state =>
          <<all_buckets[i].state, all_buckets'[i].state>> \in edges

\* The edges of the claim as stated: a failed create goes from Creating or
\* from Initializing straight to None.
ClaimedEdges ==
    {<<"None", "Creating">>, <<"Creating", "Initializing">>,
     <<"Initializing", "Ready">>, <<"Ready", "Destroying">>,
     <<"Destroying", "None">>, <<"Creating", "None">>,
     <<"Initializing", "None">>}

\* The edges of do_create_bucket and do_delete_bucket: a failed engine
\* construction goes from Creating to None, a failed initialize from
\* Initializing through Destroying to None.
CodeEdges ==
    {<<"None", "Creating">>, <<"Creating", "Initializing">>,
     <<"Initializing", "Ready">>, <<"Ready", "Destroying">>,
     <<"Destroying", "None">>, <<"Creating", "None">>,
     <<"Initializing", "Destroying">>}

\* The slot a create has reserved and not yet finished with is never Ready
\* and has no client.
UnfinishedCreate ==
    \A d \in registry :
       conns[d].tpc \in {"cr_engine", "cr_init", "cr_destroy", "cr_none"} =>
          LET b == all_buckets[conns[d].tidx] IN
          /\ conns[d].tidx \in UserSlots
          /\ b.clients = 0
          /\ b.state = CASE conns[d].tpc = "cr_engine" -> "Creating"
                          [] conns[d].tpc = "cr_init" -> "Initializing"
                          [] OTHER -> "Destroying"

\* C22 (as stated): every change of state of a slot i >= 1 follows
\* None->Creating, Creating->Initializing, Initializing->Ready,
\* Ready->Destroying, Destroying->None or, on a failed create,
\* Creating->None or Initializing->None; a failed create never passes
\* through Ready.
C22_ClaimedLifeCycle ==
    /\ []UnfinishedCreate
    /\ [][FollowsEdges(ClaimedEdges)]_vars

\* C22 (amended): the same with the edges of the code, where a failed
\* initialize takes the slot from Initializing to Destroying and from
\* there to None, and only a failed engine construction goes from
\* Creating to None; a slot becomes Ready only from Initializing, so a
\* failed create never passes through Ready and its slot never has a
\* client.
C22_LifeCycle ==
    /\ []UnfinishedCreate
    /\ [][FollowsEdges(CodeEdges)]_vars

\* A create whose engine failed to initialize holds its slot Destroying.
C22_Witness ==
    \E d \in registry :
       /\ conns[d].tpc = "cr_destroy"
       /\ all_buckets[conns[d].tidx].state = "Destroying"

\* ---- engine calls and the two locks
\* The bucket thread of request d is about to call new_engine_instance,
\* initialize or destroy.
EngineStages == {"cr_engine", "cr_init", "cr_destroy", "del_destroy"}

\* The step is an engine call made by the bucket thread of d.
BucketThreadCallsEngine(d) ==
    conns[d].tpc \in EngineStages /\ conns'[d].tpc # conns[d].tpc

\* The step is an engine call made by the main thread: the ON_DISCONNECT
\* callbacks of close_all_connections, or the destroy of cleanup_buckets.
MainCallsEngine ==
    /\ main' # main
    /\ \/ /\ main.pc = "close_visit" /\ main.cursor \in registry
          /\ close_all_notifies(conns[main.cursor])
       \/ /\ main.pc = "cleanup_buckets" /\ main.cursor < MaxBuckets
          /\ all_buckets[main.cursor].state = "Ready"

\* C23: no engine entry point (construction, initialize, destroy, an
\* ON_DISCONNECT callback) is called by a thread that holds buckets_lock
\* or connections.mutex; a create that is inside the engine's initialize
\* does not hold the table lock another create or delete would need.
C23_NoEngineCallUnderLock ==
    [][/\ \A d \in Conns :
            BucketThreadCallsEngine(d) =>
               buckets_lock # d /\ connections_mutex # d
       /\ MainCallsEngine =>
            buckets_lock # MainThread /\ connections_mutex # MainThread]_vars

\* ---- the loan of a buffer
BufKinds == {"read", "write"}

\* The step is run_event_loop's loan of buffers to connection c.
LoanStep(c) == conns[c].pc = "idle" /\ conns'[c].pc = "run"

\* What the loan step does to the buffer k of connection c, where keeps
\* says whether the connection keeps the buffer it has: kept (Existing,
\* nothing changes), taken from the thread (Loaned, the thread's slot
\* left empty), or fresh and empty (Allocated, the thread's slot empty);
\* a failed allocation leaves the connection without a buffer.
LoanContract(c, k, keeps) ==
    LET cb  == net_buf[c][k]
        tb  == thread_buf[k]
        ncb == net_buf'[c][k]
        ntb == thread_buf'[k]
        res == conn_loan_single_buffer(tb, cb, heap, TRUE).res
    IN IF keeps
       THEN res = "Existing" /\ ncb = cb /\ ntb = tb
       ELSE IF tb.buf # 0
       THEN res = "Loaned" /\ ncb = tb /\ ntb.buf = 0
       ELSE /\ malloc(heap) # 0 => res = "Allocated"
            /\ ntb.buf = 0
            /\ \/ ncb.buf = 0
               \/ /\ ncb.buf \notin heap /\ ncb.buf \in heap'
                  /\ ncb.curr = 0 /\ ncb.bytes = 0

\* C24 (as stated): on becoming active the connection keeps, for its read
\* and for its write buffer, a buffer that is not empty (Existing);
\* otherwise it gets the thread's spare (Loaned) or else a fresh empty
\* buffer (Allocated), the thread's slot being empty afterwards.
C24_ClaimedLoan ==
    [][\A c \in registry : \A k \in BufKinds :
          LoanStep(c) =>
             LoanContract(c, k, net_buf[c][k].buf # 0
                                   /\ ~clean(net_buf[c][k]))]_vars

\* C24 (amended): the connection keeps whatever buffer it holds, empty or
\* not (Existing, nothing changes); only a connection without a buffer
\* gets the thread's spare (Loaned) or else a fresh empty buffer
\* (Allocated), the thread's slot being empty afterwards.
C24_Loan ==
    [][\A c \in registry : \A k \in BufKinds :
          LoanStep(c) =>
             LoanContract(c, k, net_buf[c][k].buf # 0)]_vars

\* A DCP connection has become active holding the empty read buffer it
\* kept, while the thread has a spare read buffer of its own.
C24_Witness ==
    \E c \in registry :
       /\ conns[c].pc = "run" /\ conns[c].dcp
       /\ net_buf[c].read.buf # 0 /\ clean(net_buf[c].read)
       /\ thread_buf.read.buf # 0

\* ---- a failed allocation during the loan
\* The loan step of c found neither the connection nor the thread with a
\* buffer k and left the connection without one: the allocation failed.
AllocFailed(c, k) ==
    /\ LoanStep(c)
    /\ net_buf[c][k].buf = 0 /\ thread_buf[k].buf = 0
    /\ net_buf'[c][k].buf = 0

\* What a failed allocation leaves behind whatever the other buffer does:
\* the connection is closing and without the buffer, the thread's slot
\* for it, the heap's other buffers and the buffers of every other
\* connection are as they were, and the worker thread runs on.
FailureClosesConnection(c, k) ==
    /\ conns'[c].state = "conn_closing" /\ conns'[c].pc = "run"
    /\ net_buf'[c][k] = net_buf[c][k]
    /\ thread_buf'[k] = thread_buf[k]
    /\ heap \subseteq heap'
    /\ \A o \in Conns \ {c} : net_buf'[o] = net_buf[o] /\ conns'[o] = conns[o]
    /\ ~assert_failed' /\ ~double_free' /\ ~use_after_free'

ReturnStep(c) == conns[c].pc = "ret" /\ conns'[c].pc = "idle"

\* C26: conn_return_buffers of a streaming (DCP) connection leaves the
\* connection's two buffers, the thread's spare slots and the heap as
\* they are, drained or not; a streaming connection loses a buffer only
\* in the step that closes it (conn_close), which hands the buffer to the
\* thread or frees it.
C26_StreamKeepsBuffers ==
    [][\A c \in registry :
         /\ (ReturnStep(c) /\ conns[c].dcp) =>
               /\ net_buf'[c] = net_buf[c]
               /\ thread_buf' = thread_buf
               /\ heap' = heap
         /\ \A k \in BufKinds :
               (conns[c].dcp /\ net_buf[c][k].buf # 0
                  /\ net_buf'[c][k].buf # net_buf[c][k].buf) =>
                 /\ conns'[c].state = "conn_destroyed"
                 /\ net_buf'[c][k].buf = 0
                 /\ \/ thread_buf'[k].buf = net_buf[c][k].buf
                    \/ net_buf[c][k].buf \notin heap']_vars

\* A streaming connection has gone idle keeping a drained read buffer
\* although the thread's read slot is empty.
C26_Witness ==
    \E c \in registry :
       /\ conns[c].dcp /\ conns[c].pc = "idle"
       /\ net_buf[c].read.buf # 0 /\ clean(net_buf[c].read)
       /\ thread_buf.read.buf = 0

\* ---- slot 0
\* C27: slot 0 is Ready and holds the live no-bucket engine in every state
\* that creates, deletes and selects reach: no create-bucket thread ever
\* takes slot 0 as its free slot or works on it, and no delete-bucket
\* thread ever finds its name in slot 0.
C27_SlotZeroPermanent ==
    [](/\ all_buckets[0].state = "Ready"
       /\ all_buckets[0].engine = "live"
       /\ all_buckets[0].name = ""
       /\ \A d \in Conns :
            /\ conns[d].tpc = "cr_scan" => conns[d].first_free # 0
            /\ conns[d].tpc \in CreateStages \ {"cr_lock", "cr_scan"} =>
                  conns[d].tidx # 0
            /\ conns[d].tpc \in DeleteStages => conns[d].tidx # 0)

\* A bucket has been created and deleted again (its delete-bucket thread
\* is about to report success) and a connection is bound to slot 0.
C27_Witness ==
    /\ \E d \in registry :
          /\ conns[d].state = "conn_delete_bucket"
          /\ conns[d].tpc = "notify" /\ conns[d].tret = "SUCCESS"
    /\ all_buckets[0].state = "Ready"
    /\ \E c \in registry : conns[c].bucketIndex = 0

\* ---- the length of a bucket name
\* The step is a create-bucket request of c that validation refused: the
\* request is counted and answered at once, no create thread starts.
CreateRefused(c) ==
    /\ conns[c].state = "conn_parse_cmd" /\ conns[c].pc = "run"
    /\ ncreates' = ncreates + 1
    /\ conns'[c].state # "conn_create_bucket"

\* C28: create_bucket_validator answers invalid-arguments for the empty
\* name and for a name of more than MAX_BUCKET_NAME_LENGTH characters and
\* accepts one of exactly that length; a refused create-bucket is answered
\* without a create thread and without a change to any slot, so no create
\* thread and no slot ever carries a name validation refuses.
C28_NameLength ==
    /\ [](/\ create_bucket_validator(Len("")) = "EINVAL"
          /\ create_bucket_validator(
                Len(fill(MAX_BUCKET_NAME_LENGTH + 1))) = "EINVAL"
          /\ create_bucket_validator(
                Len(fill(MAX_BUCKET_NAME_LENGTH))) = "SUCCESS"
          /\ \A d \in Conns :
                conns[d].tpc \in CreateStages =>
                   /\ Len(conns[d].name) >= 1
                   /\ Len(conns[d].name) <= MAX_BUCKET_NAME_LENGTH
          /\ \A i \in DOMAIN all_buckets :
                /\ Len(all_buckets[i].name) <= MAX_BUCKET_NAME_LENGTH
                /\ (i > 0 /\ all_buckets[i].state # "None") =>
                      Len(all_buckets[i].name) >= 1)
    /\ [][\A c \in registry :
             CreateRefused(c) =>
                /\ all_buckets' = all_buckets
                /\ buckets_lock' = buckets_lock
                /\ conns'[c].tpc = "none"
                /\ conns'[c].state = "conn_mwrite"]_vars

\* The bucket with the name of the greatest length has been created and
\* its delete-bucket thread is about to report success.
C28_Witness ==
    \E d \in registry :
       /\ conns[d].state = "conn_delete_bucket"
       /\ conns[d].name = fill(MAX_BUCKET_NAME_LENGTH)
       /\ conns[d].tpc = "notify" /\ conns[d].tret = "SUCCESS"

\* C29: a call of initFromBucketConfig that throws leaves the enabled
\* flag, the separator and the collection set as they were before the call.
C29_ThrowChangesNothing ==
    [][coll'.thrown # "none" => coll'.obj = coll.obj]_vars

\* What does hold: a call that throws invalid_argument, which is every
\* refusal of a configuration string, leaves the object as it was.
C29_RefusalChangesNothing ==
    [][coll'.thrown = "invalid_argument" => coll'.obj = coll.obj]_vars

\* The delete thread d is about to test whether its own connection is
\* connected to the slot it has just marked Destroying; the connection is,
\* and it is the slot's only client.
OnlyClientDeletes(d) ==
    /\ ThreadAt(d, "del_self")
    /\ conns[d].bucketIndex = conns[d].tidx
    /\ all_buckets[conns[d].tidx].clients = 1
    /\ \A c \in Conns \ {d} : conns[c].bucketIndex # conns[d].tidx

\* The delete thread d has not finished (its slot is still Destroying) and
\* no connection but its own can be holding the slot.
UnfinishedAlone(d) ==
    /\ conns[d].tpc \in DeleteStages
    /\ all_buckets[conns[d].tidx].state = "Destroying"
    /\ \A c \in Conns \ {d} : conns[c].bucketIndex # conns[d].tidx

\* C30: do_delete_bucket disassociates the requesting connection from the
\* doomed bucket before it waits for the drain: while the delete thread
\* waits, the requester is not connected to the slot; and a delete issued by
\* the bucket's only client completes: from the moment such a delete is
\* about to release its own connection, the time comes when no delete that
\* only its own requester could hold up is unfinished.
C30_RequesterLeavesFirst ==
    /\ [](\A d \in Conns :
            ThreadAt(d, "del_wait") => conns[d].bucketIndex # conns[d].tidx)
    /\ (\E d \in Conns : OnlyClientDeletes(d))
          ~> (\A d \in Conns : ~UnfinishedAlone(d))

\* The delete thread is past its wait and about to destroy the engine of a
\* slot that has no client left, and the connection that asked for the delete
\* has been taken off a bucket: it is on index 0 without an engine.
C30_Witness ==
    \E d \in Conns :
       /\ ThreadAt(d, "del_destroy")
       /\ conns[d].state # "free"
       /\ conns[d].bucketIndex = 0
       /\ conns[d].bucketEngine = NullEngine
       /\ all_buckets[conns[d].tidx].clients = 0

\* C40: after calls of initFromBucketConfig and addCollection that
\* succeeded, no stored collection name is empty, longer than
\* CollectionNameMaxLength, or contains the object's current separator.
C40_StoredNamesValid ==
    coll.thrown = "none" =>
       \A collection \in coll.obj.collections :
          /\ collection # ""
          /\ Len(collection) <= CollectionNameMaxLength
          /\ ~doesStringContainString(collection, coll.obj.separator)

\* C38: every bucket slot in state None has an empty name, no client, a
\* null engine handle and no registered ON_DISCONNECT handler, after a
\* delete as well as after a create that failed.
C38_NoneSlotIsClean ==
    \A i \in UserSlots :
       all_buckets[i].state = "None" =>
          /\ all_buckets[i].name = ""
          /\ all_buckets[i].clients = 0
          /\ all_buckets[i].engine = "null"
          /\ ~all_buckets[i].handlers

\* C39: for every connection that reaches conn_destroyed the ON_DISCONNECT
\* handlers of the bucket it is bound to have been called for it: the step
\* that destroys it calls them for the slot it is bound to before the
\* step, that is before disassociate_bucket, and a destroyed connection,
\* which is freed next, has had them called.
C39_DisconnectBeforeRelease ==
    /\ [](\A c \in Conns :
            conns[c].state = "conn_destroyed" => conns[c].notified # -1)
    /\ [][\A c \in Conns :
            (conns[c].state # "conn_destroyed"
               /\ conns'[c].state = "conn_destroyed")
            => conns'[c].notified = conns[c].bucketIndex]_vars

\* A connection bound to a bucket a client created has been destroyed after
\* that bucket's handlers were called for it.
C39_Witness ==
    \E c \in Conns :
       /\ conns[c].state = "conn_destroyed"
       /\ conns[c].notified \in UserSlots
       /\ conns[c].bucketIndex = 0

\* The worker runs conn_closing for c in this step.
ClosingStep(c) ==
    /\ conns[c].pc = "run"
    /\ conns[c].state = "conn_closing"
    /\ conns'[c] # conns[c]

\* C32: conn_closing always unregisters the connection's event, closes its
\* socket and releases the item of the command in flight, and then moves to
\* conn_pending_close if and only if refcount > 1 or ewouldblock is set,
\* and to conn_immediate_close otherwise.
C32_ClosingBranches ==
    [][\A c \in Conns :
         ClosingStep(c) =>
            /\ conns'[c].ev = "none"
            /\ conns'[c].socketClosed
            /\ ~conns'[c].item
            /\ conns'[c].state \in {"conn_pending_close",
                                    "conn_immediate_close"}
            /\ conns'[c].state = "conn_pending_close"
                 <=> (conns[c].refcount > 1 \/ conns[c].ewouldblock)]_vars

\* conn_closing has just sent to conn_pending_close a connection nobody
\* holds a reference to, because ewouldblock is set.
C32_Witness ==
    \E c \in Conns :
       /\ conns[c].pc = "run"
       /\ conns[c].state = "conn_pending_close"
       /\ conns[c].refcount = 1
       /\ conns[c].ewouldblock
       /\ conns[c].socketClosed
       /\ conns[c].ev = "none"

\* The worker runs conn_pending_close for c in this step.
PendingCloseStep(c) ==
    /\ conns[c].pc = "run"
    /\ conns[c].state = "conn_pending_close"
    /\ conns'[c] # conns[c]

\* A reference to c is dropped in this step.
ReleaseStep(c) ==
    /\ conns'[c].state # "free"
    /\ conns'[c].refcount < conns[c].refcount

\* c is closing and nothing but the registry holds a reference to it.
LastReferenceReleased(c) ==
    /\ conns[c].state \in {"conn_pending_close", "conn_immediate_close"}
    /\ conns[c].refcount <= 1

ImmediateCloseStep(c) ==
    /\ conns[c].pc = "run"
    /\ conns[c].state = "conn_immediate_close"
    /\ conns'[c] # conns[c]

\* C34: conn_immediate_close takes exactly one client off the bucket the
\* connection is bound to and leaves every other count alone, signals that
\* bucket's condition exactly when the count has reached 0 and the bucket
\* is Destroying (and no other bucket's), and leaves the connection
\* destroyed, without a thread, its socket closed and without buffers.
C34_ImmediateClose ==
    [][\A c \in Conns : ImmediateCloseStep(c) =>
          LET i == conns[c].bucketIndex
          IN /\ all_buckets'[i].clients = all_buckets[i].clients - 1
             /\ all_buckets'[i].cond =
                   (all_buckets[i].cond
                      \/ (all_buckets'[i].clients = 0
                            /\ all_buckets[i].state = "Destroying"))
             /\ \A j \in Slots \ {i} : all_buckets'[j] = all_buckets[j]
             /\ all_buckets'[i].state = all_buckets[i].state
             /\ conns'[c].state = "conn_destroyed"
             /\ ~conns'[c].thread
             /\ conns'[c].socketClosed
             /\ net_buf'[c].read.buf = 0
             /\ net_buf'[c].write.buf = 0]_vars

\* The last client of a Destroying bucket has just been closed while it
\* held both buffers: the condition is signalled, the buffers are gone.
C34_Witness ==
    \E c \in Conns :
       /\ conns[c].state = "conn_destroyed"
       /\ conns[c].pc = "ret"
       /\ conns[c].notified = 1
       /\ all_buckets[1].state = "Destroying"
       /\ all_buckets[1].clients = 0
       /\ all_buckets[1].cond
       /\ heap # {}
       /\ net_buf[c].read.buf = 0
       /\ net_buf[c].write.buf = 0

\* A command of the connection has been decoded and is not done with: its
\* body is being read, the engine has not answered yet, or its response is
\* not written out.
InFlight(r) ==
    /\ r.state \notin {"free", "init", "conn_closing", "conn_pending_close",
                       "conn_immediate_close", "conn_destroyed"}
    /\ \/ r.state \in {"conn_nread", "conn_mwrite", "conn_write",
                       "conn_create_bucket", "conn_delete_bucket"}
       \/ r.ewouldblock
       \/ r.aio # "none"

\* The worker is about to decode a new command of connection c (and not
\* to run a parked command again after its completion).
Decoding(c) ==
    /\ conns[c].pc = "run"
    /\ conns[c].state = "conn_parse_cmd"
    /\ conns[c].aio # "done"

\* C37: the commands of a connection that is not a stream run one after
\* another: a new command is decoded only while no command is in flight
\* (ewouldblock clear, no completion awaited, no item or body left over);
\* conn_parse_cmd is only entered from conn_new_cmd or, for the first bytes
\* after a wait, from conn_read; and a command in flight ends in
\* conn_new_cmd (its response written) or in conn_closing, never directly
\* in the decoding or the waiting for another command.
C37_OneCommandAtATime ==
    /\ [](\A c \in Conns : Decoding(c) /\ ~conns[c].dcp =>
             /\ ~conns[c].ewouldblock
             /\ conns[c].aio = "none"
             /\ ~conns[c].item
             /\ conns[c].rlbytes = 0)
    /\ [][\A c \in Conns :
            (/\ ~conns[c].dcp /\ ~conns'[c].dcp
             /\ conns[c].state # "conn_parse_cmd"
             /\ conns'[c].state = "conn_parse_cmd")
            => conns[c].state \in {"conn_new_cmd", "conn_read"}]_vars
    /\ [][\A c \in Conns :
            (/\ ~conns[c].dcp /\ ~conns'[c].dcp
             /\ InFlight(conns[c])
             /\ ~InFlight(conns'[c]))
            => conns'[c].state \in {"conn_new_cmd", "conn_closing"}]_vars

\* A pipelined command is about to be decoded: conn_new_cmd has counted the
\* command before it in this run of the event handler and found its
\* successor in the read buffer.
C37_Witness ==
    \E c \in Conns :
       /\ Decoding(c)
       /\ ~conns[c].dcp
       /\ conns[c].rbytes > 0
       /\ conns[c].which # "none"
       /\ conns[c].numEvents < conns[c].maxReqsPerEvent
       /\ conns[c].bucketIndex = 1

\* Part of a response of the connection has been written and the rest is
\* still to go.
PartlyWritten(r) == r.state \in {"conn_write", "conn_mwrite"} /\ r.sent

\* C36: a connection with a partly written response keeps its socket, its
\* state and its write registration whatever happens to its bucket or to
\* the server: only its own conn_write / conn_mwrite step takes it out of
\* the state, and that step, also when the bucket is dying, either finds
\* the transmit complete and goes to the state that follows the response,
\* finds a transmit error and goes to conn_closing, or waits again for the
\* socket; conn_closing is reached for a dying bucket only from the state
\* that follows.
C36_WriteIsFinished ==
    /\ [](\A c \in Conns :
             PartlyWritten(conns[c]) /\ conns[c].pc = "idle" =>
                /\ ~conns[c].socketClosed
                /\ c \in registry
                /\ conns[c].ev \in {"write", "rw"})
    /\ [][\A c \in Conns :
            PartlyWritten(conns[c]) /\ conns'[c] # conns[c] =>
               \/ /\ conns[c].pc = "idle"
                  /\ conns'[c].state = conns[c].state
                  /\ conns'[c].sent
                  /\ conns'[c].socketClosed = conns[c].socketClosed
                  /\ conns'[c].ev \in {"write", "rw"}
               \/ /\ conns[c].pc = "run"
                  /\ \/ /\ conns'[c].state = conns[c].write_and_go
                        /\ ~conns'[c].sent /\ ~conns'[c].txerr
                     \/ /\ conns'[c].state = "conn_closing"
                        /\ conns'[c].txerr
                     \/ /\ conns'[c].state = conns[c].state
                        /\ conns'[c].pc = "idle"
                        /\ conns'[c].ev = "write"]_vars

\* The worker is about to go on with a partly written response while the
\* bucket of the connection is being destroyed.
C36_Witness ==
    \E c \in Conns :
       /\ PartlyWritten(conns[c])
       /\ conns[c].pc = "run"
       /\ conns[c].bucketIndex = 1
       /\ all_buckets[1].state = "Destroying"
       /\ ~main.shutdown

\* The same while the server is being shut down.
C36_ShutdownReached ==
    \E c \in Conns :
       /\ PartlyWritten(conns[c])
       /\ conns[c].pc = "run"
       /\ main.shutdown

\* The worker runs conn_new_cmd for c in this step.
NewCmdStep(c) ==
    /\ conns[c].pc = "run"
    /\ conns[c].state = "conn_new_cmd"
    /\ conns'[c] # conns[c]

\* conn_new_cmd finds the budget of the connection used up while a command
\* is buffered or the connection is a stream (and the bucket is not dying).
Exhausted(r) ==
    /\ ~is_bucket_dying(r)
    /\ ~budget_left(decrementNumEvents(r))
    /\ (havePendingInputData(r) \/ r.dcp)

\* c has yielded in conn_new_cmd with a write registration, a command
\* buffered or a stream to serve.
WaitsForWrite(c) ==
    /\ c \in registry
    /\ conns[c].pc = "idle"
    /\ conns[c].state = "conn_new_cmd"
    /\ conns[c].ev = "write"
    /\ (havePendingInputData(conns[c]) \/ conns[c].dcp)

\* The worker has taken c up again and, if a command is buffered, is about
\* to decode it (or to close the connection of a dying bucket).
Resumed(c) ==
    /\ conns[c].pc = "run"
    /\ havePendingInputData(conns[c]) =>
          conns[c].state \in {"conn_parse_cmd", "conn_closing"}

C35_Witness ==
    \E c \in Conns : WaitsForWrite(c) /\ ~conns[c].dcp /\ conns[c].rbytes > 0

\* Connection d is changed in this step by a thread that is not its
\* worker: the delete-bucket thread takes it off the bucket it deletes, or
\* an engine's thread drops a reference to it.
ForeignStep(d) ==
    \/ /\ conns[d].tpc = "del_self"
       /\ conns'[d].tpc = "del_wait"
       /\ conns'[d].bucketIndex # conns[d].bucketIndex
    \/ /\ conns[d].state # "free" /\ conns'[d].state # "free"
       /\ conns'[d].refcount < conns[d].refcount

\* The worker is in the middle of a run of the event handler for d (it
\* holds the lock of its thread).
InHandler(d) == conns[d].pc # "idle"

\* C31: the worker runs the handler of one connection at a time, and no
\* other thread changes a connection while the worker is in the handler of
\* that connection.
C31_OneThreadPerConnection ==
    /\ [](\A c, d \in Conns : InHandler(c) /\ InHandler(d) => c = d)
    /\ [][\A d \in Conns : ForeignStep(d) => ~InHandler(d)]_vars

\* What holds: release_cookie takes the lock of the thread, so a reference
\* is never dropped while the worker is in the handler of the connection.
C31_ReleaseUnderLock ==
    [][\A d \in Conns :
         (/\ conns[d].state # "free" /\ conns'[d].state # "free"
          /\ conns'[d].refcount < conns[d].refcount)
         => ~InHandler(d)]_vars

====
